---------------------------- MODULE Spec2Model ----------------------------
(***************************************************************************)
(* A model of the mortgage calculator's financial engine                   *)
(* (utils/calculations): amortization, Texas property tax exemptions,      *)
(* scenario affordability, debt-to-income qualification, stress tests,     *)
(* PMI and savings goals; and of the exemptions form, the share links and  *)
(* the mortgage rates service around it.                                   *)
(*                                                                         *)
(* The engine computes on JavaScript numbers.  A number is modelled as an  *)
(* exact rational <<n, d>> in lowest terms with d > 0; d = 0 encodes the   *)
(* non-finite values (<<1,0>> = Infinity, <<-1,0>> = -Infinity,            *)
(* <<0,0>> = NaN).  The arithmetic is therefore the real arithmetic the    *)
(* floating-point operations approximate: rounding error is not modelled.  *)
(***************************************************************************)
EXTENDS Integers, Sequences, FiniteSets, TLC

VARIABLES amort, tax, scen, dti, pay, stress, pmi, goal, ui, mkt, share

vars == <<amort, tax, scen, dti, pay, stress, pmi, goal, ui, mkt, share>>

-----------------------------------------------------------------------------
(* JavaScript numbers as exact rationals *)

Abs(x) == IF x < 0 THEN -x ELSE x

Sgn(x) == IF x < 0 THEN -1 ELSE IF x > 0 THEN 1 ELSE 0

RECURSIVE GCD(_, _)
GCD(a, b) == IF b = 0 THEN a ELSE GCD(b, a % b)

Norm(n, d) ==
  IF d = 0 THEN <<Sgn(n), 0>>
  ELSE LET g == GCD(Abs(n), Abs(d))
       IN <<Sgn(d) * (n \div g), Sgn(d) * (d \div g)>>

RInt(i) == <<i, 1>>

Zero == RInt(0)

One == RInt(1)

NaN == <<0, 0>>

IsNaN(a) == a = NaN

IsFinite(a) == a[2] # 0

RNeg(a) == <<-a[1], a[2]>>

RAdd(a, b) ==
  IF IsFinite(a) /\ IsFinite(b)
  THEN LET g == GCD(a[2], b[2])
       IN Norm(a[1] * (b[2] \div g) + b[1] * (a[2] \div g), (a[2] \div g) * b[2])
  ELSE IF IsNaN(a) \/ IsNaN(b) THEN NaN
  ELSE IF IsFinite(b) THEN a
  ELSE IF IsFinite(a) THEN b
  ELSE IF a = b THEN a ELSE NaN

RSub(a, b) == RAdd(a, RNeg(b))

RMul(a, b) ==
  IF IsFinite(a) /\ IsFinite(b)
  THEN LET g1 == GCD(Abs(a[1]), b[2])
           g2 == GCD(Abs(b[1]), a[2])
       IN Norm((a[1] \div g1) * (b[1] \div g2), (a[2] \div g2) * (b[2] \div g1))
  ELSE <<Sgn(a[1]) * Sgn(b[1]), 0>>

RInv(a) ==
  IF ~IsFinite(a) THEN (IF IsNaN(a) THEN NaN ELSE Zero)
  ELSE IF a[1] = 0 THEN <<1, 0>>
  ELSE Norm(a[2], a[1])

RDiv(a, b) == RMul(a, RInv(b))

(* n1/d1 <= n2/d2 for d1, d2 > 0, by whole parts and then by the reciprocals
   of the fractional parts, so that no product is formed *)
RECURSIVE FracLe(_, _, _, _)
FracLe(n1, d1, n2, d2) ==
  IF n1 \div d1 # n2 \div d2 THEN n1 \div d1 < n2 \div d2
  ELSE IF n1 % d1 = 0 THEN TRUE
  ELSE IF n2 % d2 = 0 THEN FALSE
  ELSE FracLe(d2, n2 % d2, d1, n1 % d1)

RLe(a, b) ==
  IF IsNaN(a) \/ IsNaN(b) THEN FALSE
  ELSE IF a = b THEN TRUE
  ELSE IF ~IsFinite(a) THEN a[1] < 0
  ELSE IF ~IsFinite(b) THEN b[1] > 0
  ELSE FracLe(a[1], a[2], b[1], b[2])

RLt(a, b) == RLe(a, b) /\ a # b

RMax(a, b) == IF IsNaN(a) \/ IsNaN(b) THEN NaN ELSE IF RLe(a, b) THEN b ELSE a

RMin(a, b) == IF IsNaN(a) \/ IsNaN(b) THEN NaN ELSE IF RLe(a, b) THEN a ELSE b

RECURSIVE RPow(_, _)
RPow(a, k) == IF k = 0 THEN One ELSE RMul(a, RPow(a, k - 1))

(* Math.pow(a, k).  A whole exponent is repeated multiplication.  Any other
   exponent gives an irrational number, which this representation cannot
   hold: such calls are outside the model (TLC stops if one is made). *)
MathPow(a, k) ==
  IF k[2] = 1 /\ k[1] >= 0 THEN RPow(a, k[1])
  ELSE IF k[2] = 1 THEN RInv(RPow(a, -k[1]))
  ELSE CHOOSE x \in {} : TRUE

(* Math.ceil(m / k) for a whole m >= 1 and k >= 1 *)
CeilDiv(m, k) == (m + k - 1) \div k

RECURSIVE RSum(_)
RSum(s) == IF s = <<>> THEN Zero ELSE RAdd(s[1], RSum(Tail(s)))

IsWhole(a) == a[2] = 1

-----------------------------------------------------------------------------
(* Amortization engine *)

(* A payment formula whose denominator lacks the "- 1" *)
calculateMortgagePaymentNoMinusOne(principal, annualRate, years) ==
  IF RLe(principal, Zero) THEN Zero
  ELSE IF RLe(annualRate, Zero) THEN RDiv(principal, RMul(years, RInt(12)))
  ELSE LET monthlyRate == RDiv(RDiv(annualRate, RInt(100)), RInt(12))
           numberOfPayments == RMul(years, RInt(12))
           growth == MathPow(RAdd(One, monthlyRate), numberOfPayments)
       IN RDiv(RMul(principal, RMul(monthlyRate, growth)), growth)

(* A straight-line branch taken for annualRate < 0 only *)
calculateMortgagePaymentNegativeOnly(principal, annualRate, years) ==
  IF RLe(principal, Zero) THEN Zero
  ELSE IF RLt(annualRate, Zero) THEN RDiv(principal, RMul(years, RInt(12)))
  ELSE LET monthlyRate == RDiv(RDiv(annualRate, RInt(100)), RInt(12))
           numberOfPayments == RMul(years, RInt(12))
           growth == MathPow(RAdd(One, monthlyRate), numberOfPayments)
       IN RDiv(RMul(principal, RMul(monthlyRate, growth)), RSub(growth, One))

(* A zero-rate branch that divides by the years instead of the months *)
calculateMortgagePaymentPerYear(principal, annualRate, years) ==
  IF RLe(principal, Zero) THEN Zero
  ELSE IF RLe(annualRate, Zero) THEN RDiv(principal, years)
  ELSE LET monthlyRate == RDiv(RDiv(annualRate, RInt(100)), RInt(12))
           numberOfPayments == RMul(years, RInt(12))
           growth == MathPow(RAdd(One, monthlyRate), numberOfPayments)
       IN RDiv(RMul(principal, RMul(monthlyRate, growth)), RSub(growth, One))

calculateMortgagePayment(principal, annualRate, years) ==
  IF RLe(principal, Zero) THEN Zero
  ELSE IF RLe(annualRate, Zero) THEN RDiv(principal, RMul(years, RInt(12)))
  ELSE LET monthlyRate == RDiv(RDiv(annualRate, RInt(100)), RInt(12))
           numberOfPayments == RMul(years, RInt(12))
           growth == MathPow(RAdd(One, monthlyRate), numberOfPayments)
       IN RDiv(RMul(principal, RMul(monthlyRate, growth)), RSub(growth, One))

(* A row whose principal portion is interest - payment *)
AmortizationRowSwapped(a) ==
  LET interestPayment == RMul(a.balance, a.monthlyRate)
      principalPayment == RSub(interestPayment, a.monthlyPayment)
  IN [month |-> a.month,
      year |-> CeilDiv(a.month, 12),
      payment |-> a.monthlyPayment,
      principal |-> principalPayment,
      interest |-> interestPayment,
      balance |-> RMax(Zero, RSub(a.balance, principalPayment)),
      cumulativeInterest |-> RAdd(a.cumulativeInterest, interestPayment),
      cumulativePrincipal |-> RAdd(a.cumulativePrincipal, principalPayment)]

(* The row pushed by one pass of the schedule loop, from the loop's running
   balance and totals (the fields of a). *)
AmortizationRow(a) ==
  LET interestPayment == RMul(a.balance, a.monthlyRate)
      principalPayment == RSub(a.monthlyPayment, interestPayment)
  IN [month |-> a.month,
      year |-> CeilDiv(a.month, 12),
      payment |-> a.monthlyPayment,
      principal |-> principalPayment,
      interest |-> interestPayment,
      balance |-> RMax(Zero, RSub(a.balance, principalPayment)),
      cumulativeInterest |-> RAdd(a.cumulativeInterest, interestPayment),
      cumulativePrincipal |-> RAdd(a.cumulativePrincipal, principalPayment)]

(* A loop condition month < numberOfPayments *)
LoopContinuesStrict(a) == RLt(RInt(a.month), a.numberOfPayments)

(* The loop condition month <= numberOfPayments *)
LoopContinues(a) == RLe(RInt(a.month), a.numberOfPayments)

(* The AmortizationSchedule returned once the loop has ended (the payoff
   date is not part of this model). *)
AmortizationSchedule(a) ==
  [rows |-> a.rows,
   totalPayments |-> RMul(a.monthlyPayment, a.numberOfPayments),
   totalInterest |-> a.cumulativeInterest,
   totalPrincipal |-> a.principal,
   monthlyPayment |-> a.monthlyPayment]

-----------------------------------------------------------------------------
(* Affordability helpers *)

calculateMonthlyHousing(mortgagePayment, annualPropertyTax, annualInsurance, monthlyUtilities) ==
  RAdd(RAdd(RAdd(mortgagePayment, RDiv(annualPropertyTax, RInt(12))),
            RDiv(annualInsurance, RInt(12))),
       monthlyUtilities)

calculateSavingsAccumulation(currentSavings, monthlySavings, months) ==
  RAdd(currentSavings, RMul(monthlySavings, months))

(* The zero-income guard taken for negative incomes only *)
calculateAffordabilityPercentageNegativeOnly(monthlyHousing, monthlyIncome) ==
  IF RLt(monthlyIncome, Zero) THEN Zero
  ELSE RMul(RDiv(monthlyHousing, monthlyIncome), RInt(100))

calculateAffordabilityPercentage(monthlyHousing, monthlyIncome) ==
  IF RLe(monthlyIncome, Zero) THEN Zero
  ELSE RMul(RDiv(monthlyHousing, monthlyIncome), RInt(100))

-----------------------------------------------------------------------------
(* Property tax calculator *)

(* A getVeteranDisabilityExemption without its case 100 *)
getVeteranDisabilityExemptionNoFull(rating) ==
  CASE rating = 10 -> [full |-> FALSE, amount |-> RInt(5000)]
    [] rating = 30 -> [full |-> FALSE, amount |-> RInt(7500)]
    [] rating = 50 -> [full |-> FALSE, amount |-> RInt(10000)]
    [] rating = 70 -> [full |-> FALSE, amount |-> RInt(12000)]
    [] OTHER -> [full |-> FALSE, amount |-> Zero]

(* number | 'full': the record's full flag stands for the string 'full' *)
getVeteranDisabilityExemption(rating) ==
  CASE rating = 10 -> [full |-> FALSE, amount |-> RInt(5000)]
    [] rating = 30 -> [full |-> FALSE, amount |-> RInt(7500)]
    [] rating = 50 -> [full |-> FALSE, amount |-> RInt(10000)]
    [] rating = 70 -> [full |-> FALSE, amount |-> RInt(12000)]
    [] rating = 100 -> [full |-> TRUE, amount |-> Zero]
    [] OTHER -> [full |-> FALSE, amount |-> Zero]

(* A senior credit counted once per flag *)
SeniorExemptionPerFlag(exemptions) ==
  RAdd(IF exemptions.over65 THEN RInt(10000) ELSE Zero,
       IF exemptions.disabled THEN RInt(10000) ELSE Zero)

(* Age 65+ or disabled: what the second `if` adds to total *)
SeniorExemption(exemptions) ==
  IF exemptions.over65 \/ exemptions.disabled THEN RInt(10000) ELSE Zero

(* A local optional exemption capped at $5,000 instead of raised to it *)
LocalOptionalExemptionMin(homePrice, exemptions) ==
  IF RLt(Zero, exemptions.localOptionalPercent)
  THEN RMin(RMul(homePrice, RDiv(exemptions.localOptionalPercent, RInt(100))),
            RInt(5000))
  ELSE Zero

(* Local optional percentage: what its `if` adds to total *)
LocalOptionalExemption(homePrice, exemptions) ==
  LET percentageExemption ==
        RMul(homePrice, RDiv(exemptions.localOptionalPercent, RInt(100)))
  IN IF RLt(Zero, exemptions.localOptionalPercent)
     THEN RMax(percentageExemption, RInt(5000)) ELSE Zero

(* A custom amount added without the > 0 test *)
CustomExemptionUnguarded(exemptions) == exemptions.customExemptionAmount

(* Custom amount: what its `if` adds to total *)
CustomExemption(exemptions) ==
  IF RLt(Zero, exemptions.customExemptionAmount)
  THEN exemptions.customExemptionAmount ELSE Zero

(* The local `total` of calculateExemptionTotal at the veteran test: the
   homestead and senior amounts. *)
TotalBeforeVeteran(exemptions) ==
  RAdd(IF exemptions.homestead THEN RInt(100000) ELSE Zero,
       SeniorExemption(exemptions))

(* The local `total` of calculateExemptionTotal when it reaches its last
   line, before Math.min clamps it to homePrice. *)
ExemptionSum(homePrice, exemptions) ==
  LET veteran == getVeteranDisabilityExemption(exemptions.veteranDisability).amount
      agricultural ==
        IF exemptions.agriculturalExemption THEN RMul(homePrice, <<1, 2>>) ELSE Zero
  IN RAdd(RAdd(RAdd(RAdd(TotalBeforeVeteran(exemptions), veteran),
                    LocalOptionalExemption(homePrice, exemptions)),
               agricultural),
          CustomExemption(exemptions))

(* The value of the local `total` when calculateExemptionTotal returns *)
TotalAtReturn(homePrice, exemptions) ==
  IF getVeteranDisabilityExemption(exemptions.veteranDisability).full
  THEN TotalBeforeVeteran(exemptions)
  ELSE ExemptionSum(homePrice, exemptions)

(* A calculateExemptionTotal without the clamp to homePrice *)
calculateExemptionTotalUnclamped(homePrice, exemptions) ==
  IF getVeteranDisabilityExemption(exemptions.veteranDisability).full
  THEN [total |-> homePrice, isFull |-> TRUE]
  ELSE [total |-> ExemptionSum(homePrice, exemptions), isFull |-> FALSE]

calculateExemptionTotal(homePrice, exemptions) ==
  IF getVeteranDisabilityExemption(exemptions.veteranDisability).full
  THEN [total |-> homePrice, isFull |-> TRUE]
  ELSE [total |-> RMin(ExemptionSum(homePrice, exemptions), homePrice),
        isFull |-> FALSE]

calculateTexasPropertyTax(homePrice, taxRate, exemptions) ==
  LET exemptionResult == calculateExemptionTotal(homePrice, exemptions)
      taxableValue == RMax(Zero, RSub(homePrice, exemptionResult.total))
      annualTax == RMul(taxableValue, RDiv(taxRate, RInt(100)))
  IN IF exemptionResult.isFull
     THEN [assessedValue |-> homePrice,
           totalExemptions |-> homePrice,
           taxableValue |-> Zero,
           annualTax |-> Zero,
           monthlyTax |-> Zero,
           effectiveRate |-> Zero]
     ELSE [assessedValue |-> homePrice,
           totalExemptions |-> exemptionResult.total,
           taxableValue |-> taxableValue,
           annualTax |-> annualTax,
           monthlyTax |-> RDiv(annualTax, RInt(12)),
           effectiveRate |->
             IF RLt(Zero, homePrice)
             THEN RMul(RDiv(annualTax, homePrice), RInt(100)) ELSE Zero]

-----------------------------------------------------------------------------
(* Scenario calculator *)

calculateIncomeScenarios(income) ==
  [fullIncome |-> RAdd(RAdd(income.person1, income.person2Base), income.person2Variable),
   conservativeIncome |-> RAdd(income.person2Base, income.person2Variable),
   familyPlanningIncome |-> income.person2Base]

(* A chain that tests the conservative basis first *)
ScenarioStatusConservativeFirst(familyPercentage, conservativePercentage) ==
  IF RLe(conservativePercentage, RInt(25)) THEN "affordable"
  ELSE IF RLe(familyPercentage, RInt(25)) THEN "requires-variable"
  ELSE "not-affordable"

(* The if / else-if chain that sets affordabilityStatus *)
ScenarioStatus(familyPercentage, conservativePercentage) ==
  IF RLe(familyPercentage, RInt(25)) THEN "affordable"
  ELSE IF RLe(conservativePercentage, RInt(25)) THEN "requires-variable"
  ELSE "not-affordable"

calculateScenario(homePrice, downPayment, interestRate, loanTerm, annualPropertyTax, annualInsurance, monthlyUtilities, incomeScenarios) ==
  LET loanAmount == RSub(homePrice, downPayment)
      mortgagePayment == calculateMortgagePayment(loanAmount, interestRate, loanTerm)
      totalMonthlyHousing ==
        calculateMonthlyHousing(mortgagePayment, annualPropertyTax,
                                annualInsurance, monthlyUtilities)
      fullPercentage ==
        calculateAffordabilityPercentage(totalMonthlyHousing, incomeScenarios.fullIncome)
      conservativePercentage ==
        calculateAffordabilityPercentage(totalMonthlyHousing,
                                         incomeScenarios.conservativeIncome)
      familyPercentage ==
        calculateAffordabilityPercentage(totalMonthlyHousing,
                                         incomeScenarios.familyPlanningIncome)
  IN [downPayment |-> downPayment,
      loanAmount |-> loanAmount,
      mortgagePayment |-> mortgagePayment,
      totalMonthlyHousing |-> totalMonthlyHousing,
      fullPercentage |-> fullPercentage,
      conservativePercentage |-> conservativePercentage,
      familyPercentage |-> familyPercentage,
      affordabilityStatus |-> ScenarioStatus(familyPercentage, conservativePercentage)]

-----------------------------------------------------------------------------
(* Debt-to-income analyzer *)

(* Front-end bands whose boundaries are exclusive *)
getFrontEndStatusStrict(ratio) ==
  IF RLt(ratio, RInt(28)) THEN "good"
  ELSE IF RLt(ratio, RInt(31)) THEN "acceptable"
  ELSE "high"

getFrontEndStatus(ratio) ==
  IF RLe(ratio, RInt(28)) THEN "good"
  ELSE IF RLe(ratio, RInt(31)) THEN "acceptable"
  ELSE "high"

getBackEndStatus(ratio) ==
  IF RLe(ratio, RInt(36)) THEN "good"
  ELSE IF RLe(ratio, RInt(43)) THEN "acceptable"
  ELSE "high"

(* A chain that joins the two ratio tests with "or" *)
QualificationStatusEither(frontEndRatio, backEndRatio) ==
  IF RLe(frontEndRatio, RInt(28)) \/ RLe(backEndRatio, RInt(36)) THEN "qualified"
  ELSE IF RLe(frontEndRatio, RInt(31)) \/ RLe(backEndRatio, RInt(43)) THEN "marginal"
  ELSE "not-qualified"

(* The if / else-if chain that sets qualificationStatus *)
QualificationStatus(frontEndRatio, backEndRatio) ==
  IF RLe(frontEndRatio, RInt(28)) /\ RLe(backEndRatio, RInt(36)) THEN "qualified"
  ELSE IF RLe(frontEndRatio, RInt(31)) /\ RLe(backEndRatio, RInt(43)) THEN "marginal"
  ELSE "not-qualified"

(* A calculateDTI whose degenerate case is grossMonthlyIncome < 0 *)
calculateDTINegativeOnly(grossMonthlyIncome, housingCosts, otherDebt) ==
  IF RLt(grossMonthlyIncome, Zero)
  THEN [frontEndRatio |-> Zero,
        backEndRatio |-> Zero,
        frontEndStatus |-> "good",
        backEndStatus |-> "good",
        maxHousingPayment28 |-> Zero,
        maxTotalDebt36 |-> Zero,
        qualificationStatus |-> "not-qualified",
        totalMonthlyDebt |-> housingCosts]
  ELSE LET totalOtherDebt ==
             RAdd(RAdd(RAdd(RAdd(otherDebt.carPayments, otherDebt.studentLoans),
                            otherDebt.creditCards), otherDebt.otherDebt),
                  otherDebt.childSupport)
           totalMonthlyDebt == RAdd(housingCosts, totalOtherDebt)
           frontEndRatio == RMul(RDiv(housingCosts, grossMonthlyIncome), RInt(100))
           backEndRatio == RMul(RDiv(totalMonthlyDebt, grossMonthlyIncome), RInt(100))
       IN [frontEndRatio |-> frontEndRatio,
           backEndRatio |-> backEndRatio,
           frontEndStatus |-> getFrontEndStatus(frontEndRatio),
           backEndStatus |-> getBackEndStatus(backEndRatio),
           maxHousingPayment28 |-> RMul(grossMonthlyIncome, <<7, 25>>),
           maxTotalDebt36 |-> RMul(grossMonthlyIncome, <<9, 25>>),
           qualificationStatus |-> QualificationStatus(frontEndRatio, backEndRatio),
           totalMonthlyDebt |-> totalMonthlyDebt]

(* A calculateDTI whose zero-income branch also counts the other debts *)
calculateDTIDebtsInBothBranches(grossMonthlyIncome, housingCosts, otherDebt) ==
  IF RLe(grossMonthlyIncome, Zero)
  THEN [frontEndRatio |-> Zero,
        backEndRatio |-> Zero,
        frontEndStatus |-> "good",
        backEndStatus |-> "good",
        maxHousingPayment28 |-> Zero,
        maxTotalDebt36 |-> Zero,
        qualificationStatus |-> "not-qualified",
        totalMonthlyDebt |->
          RAdd(housingCosts,
               RAdd(RAdd(RAdd(RAdd(otherDebt.carPayments, otherDebt.studentLoans),
                              otherDebt.creditCards), otherDebt.otherDebt),
                    otherDebt.childSupport))]
  ELSE LET totalOtherDebt ==
             RAdd(RAdd(RAdd(RAdd(otherDebt.carPayments, otherDebt.studentLoans),
                            otherDebt.creditCards), otherDebt.otherDebt),
                  otherDebt.childSupport)
           totalMonthlyDebt == RAdd(housingCosts, totalOtherDebt)
           frontEndRatio == RMul(RDiv(housingCosts, grossMonthlyIncome), RInt(100))
           backEndRatio == RMul(RDiv(totalMonthlyDebt, grossMonthlyIncome), RInt(100))
       IN [frontEndRatio |-> frontEndRatio,
           backEndRatio |-> backEndRatio,
           frontEndStatus |-> getFrontEndStatus(frontEndRatio),
           backEndStatus |-> getBackEndStatus(backEndRatio),
           maxHousingPayment28 |-> RMul(grossMonthlyIncome, <<7, 25>>),
           maxTotalDebt36 |-> RMul(grossMonthlyIncome, <<9, 25>>),
           qualificationStatus |-> QualificationStatus(frontEndRatio, backEndRatio),
           totalMonthlyDebt |-> totalMonthlyDebt]

calculateDTI(grossMonthlyIncome, housingCosts, otherDebt) ==
  IF RLe(grossMonthlyIncome, Zero)
  THEN [frontEndRatio |-> Zero,
        backEndRatio |-> Zero,
        frontEndStatus |-> "good",
        backEndStatus |-> "good",
        maxHousingPayment28 |-> Zero,
        maxTotalDebt36 |-> Zero,
        qualificationStatus |-> "not-qualified",
        totalMonthlyDebt |-> housingCosts]
  ELSE LET totalOtherDebt ==
             RAdd(RAdd(RAdd(RAdd(otherDebt.carPayments, otherDebt.studentLoans),
                            otherDebt.creditCards), otherDebt.otherDebt),
                  otherDebt.childSupport)
           totalMonthlyDebt == RAdd(housingCosts, totalOtherDebt)
           frontEndRatio == RMul(RDiv(housingCosts, grossMonthlyIncome), RInt(100))
           backEndRatio == RMul(RDiv(totalMonthlyDebt, grossMonthlyIncome), RInt(100))
       IN [frontEndRatio |-> frontEndRatio,
           backEndRatio |-> backEndRatio,
           frontEndStatus |-> getFrontEndStatus(frontEndRatio),
           backEndStatus |-> getBackEndStatus(backEndRatio),
           maxHousingPayment28 |-> RMul(grossMonthlyIncome, <<7, 25>>),
           maxTotalDebt36 |-> RMul(grossMonthlyIncome, <<9, 25>>),
           qualificationStatus |-> QualificationStatus(frontEndRatio, backEndRatio),
           totalMonthlyDebt |-> totalMonthlyDebt]

-----------------------------------------------------------------------------
(* Stress test runner *)

(* A classification that reads the back-end ratio *)
StressStatusBackEnd(dtiResult) ==
  IF RLe(dtiResult.backEndRatio, RInt(28)) THEN "affordable"
  ELSE IF RLe(dtiResult.backEndRatio, RInt(36)) THEN "requires-variable"
  ELSE "not-affordable"

(* The if / else-if chain of the map callback *)
StressStatus(dtiResult) ==
  IF RLe(dtiResult.frontEndRatio, RInt(28)) THEN "affordable"
  ELSE IF RLe(dtiResult.frontEndRatio, RInt(36)) THEN "requires-variable"
  ELSE "not-affordable"

(* The map callback: the StressTestResult of one increment *)
StressTestResult(principal, baseRate, loanTerm, annualPropertyTax, annualInsurance, monthlyUtilities, grossMonthlyIncome, otherDebt, increment) ==
  LET newRate == RAdd(baseRate, increment)
      monthlyPayment == calculateMortgagePayment(principal, newRate, loanTerm)
      totalMonthlyHousing ==
        calculateMonthlyHousing(monthlyPayment, annualPropertyTax,
                                annualInsurance, monthlyUtilities)
      dtiResult == calculateDTI(grossMonthlyIncome, totalMonthlyHousing, otherDebt)
  IN [rate |-> newRate,
      rateIncrease |-> increment,
      monthlyPayment |-> monthlyPayment,
      totalMonthlyHousing |-> totalMonthlyHousing,
      dtiResult |-> dtiResult,
      affordabilityStatus |-> StressStatus(dtiResult)]

stressTestScenario(principal, baseRate, loanTerm, annualPropertyTax, annualInsurance, monthlyUtilities, grossMonthlyIncome, otherDebt, rateIncrements) ==
  [i \in 1 .. Len(rateIncrements) |->
     StressTestResult(principal, baseRate, loanTerm, annualPropertyTax, annualInsurance,
                      monthlyUtilities, grossMonthlyIncome, otherDebt, rateIncrements[i])]

-----------------------------------------------------------------------------
(* PMI lifecycle calculator *)

(* null.  An optional argument is <<>> when it is left out and <<v>> when it
   is given the value v. *)
Null == <<>>

(* x ?? d, for an optional x *)
Nullish(x, d) == IF x = <<>> THEN d ELSE x[1]

(* A scan without the break: the last row at or below the target *)
PMIRemovalRowLast(rows, target80LTV) ==
  LET hits == {i \in 1 .. Len(rows) : RLe(rows[i].balance, target80LTV)}
  IN IF hits = {} THEN 0 ELSE CHOOSE i \in hits : \A j \in hits : j <= i

(* A scan that wants the balance strictly below the target *)
PMIRemovalRowStrict(rows, target80LTV) ==
  LET hits == {i \in 1 .. Len(rows) : RLt(rows[i].balance, target80LTV)}
  IN IF hits = {} THEN 0 ELSE CHOOSE i \in hits : \A j \in hits : i <= j

(* The for-of loop with its break: the index of the first row whose balance
   is <= target80LTV, 0 when the loop ends without one *)
PMIRemovalRow(rows, target80LTV) ==
  LET hits == {i \in 1 .. Len(rows) : RLe(rows[i].balance, target80LTV)}
  IN IF hits = {} THEN 0 ELSE CHOOSE i \in hits : \A j \in hits : i <= j

(* A calculatePMI that requires PMI at an LTV of exactly 80 *)
calculatePMIFrom80(loanAmount, homePrice, annualPMIRate, amortization) ==
  LET ltv == RMul(RDiv(loanAmount, homePrice), RInt(100))
      annualPMI == RMul(loanAmount, RDiv(annualPMIRate, RInt(100)))
      monthlyPMI == RDiv(annualPMI, RInt(12))
      hit == IF amortization = <<>> THEN 0
             ELSE PMIRemovalRow(amortization[1].rows, RMul(homePrice, <<4, 5>>))
  IN IF RLt(ltv, RInt(80))
     THEN [required |-> FALSE, monthlyPMI |-> Zero, annualPMI |-> Zero, ltv |-> ltv,
           monthsUntilRemoval |-> Null, totalPMICost |-> Zero]
     ELSE [required |-> TRUE, monthlyPMI |-> monthlyPMI, annualPMI |-> annualPMI,
           ltv |-> ltv,
           monthsUntilRemoval |->
             IF hit = 0 THEN Null ELSE RInt(amortization[1].rows[hit].month),
           totalPMICost |->
             IF hit = 0 THEN Zero
             ELSE RMul(monthlyPMI, RInt(amortization[1].rows[hit].month))]

calculatePMI(loanAmount, homePrice, annualPMIRate, amortization) ==
  LET ltv == RMul(RDiv(loanAmount, homePrice), RInt(100))
      annualPMI == RMul(loanAmount, RDiv(annualPMIRate, RInt(100)))
      monthlyPMI == RDiv(annualPMI, RInt(12))
      hit == IF amortization = <<>> THEN 0
             ELSE PMIRemovalRow(amortization[1].rows, RMul(homePrice, <<4, 5>>))
  IN IF RLe(ltv, RInt(80))
     THEN [required |-> FALSE, monthlyPMI |-> Zero, annualPMI |-> Zero, ltv |-> ltv,
           monthsUntilRemoval |-> Null, totalPMICost |-> Zero]
     ELSE [required |-> TRUE, monthlyPMI |-> monthlyPMI, annualPMI |-> annualPMI,
           ltv |-> ltv,
           monthsUntilRemoval |->
             IF hit = 0 THEN Null ELSE RInt(amortization[1].rows[hit].month),
           totalPMICost |->
             IF hit = 0 THEN Zero
             ELSE RMul(monthlyPMI, RInt(amortization[1].rows[hit].month))]

-----------------------------------------------------------------------------
(* Savings goal projector.  A Date is <<year, month, day>> with the month
   counted from 0 as getMonth counts it; the time of day is left out. *)

MathCeil(a) == IF IsFinite(a) THEN RInt(-((-a[1]) \div a[2])) ELSE a

IsLeapYear(y) == (y % 4 = 0 /\ y % 100 # 0) \/ y % 400 = 0

DaysInMonth(y, m) ==
  IF m = 1 THEN (IF IsLeapYear(y) THEN 29 ELSE 28)
  ELSE IF m \in {3, 5, 8, 10} THEN 30
  ELSE 31

getFullYear(date) == date[1]

getMonth(date) == date[2]

getDate(date) == date[3]

(* Date.prototype.setMonth: months past 11 carry into the year, and a day
   the new month does not have carries into the month after it *)
setMonth(date, month) ==
  LET y == getFullYear(date) + (month \div 12)
      m == month % 12
      over == getDate(date) - DaysInMonth(y, m)
  IN IF over <= 0 THEN <<y, m, getDate(date)>>
     ELSE IF m = 11 THEN <<y + 1, 0, over>>
     ELSE <<y, m + 1, over>>

(* A month count rounded down *)
MonthsToGoalFloor(remainingNeeded, monthlySavings) ==
  IF RLt(Zero, remainingNeeded) /\ RLt(Zero, monthlySavings)
  THEN RInt(RDiv(remainingNeeded, monthlySavings)[1] \div
            RDiv(remainingNeeded, monthlySavings)[2])
  ELSE Null

(* A month count that is always one past the whole months of the quotient *)
MonthsToGoalPlusOne(remainingNeeded, monthlySavings) ==
  IF RLt(Zero, remainingNeeded) /\ RLt(Zero, monthlySavings)
  THEN RAdd(MonthsToGoalFloor(remainingNeeded, monthlySavings), One)
  ELSE Null

(* monthsToGoal after the two nested tests *)
MonthsToGoal(remainingNeeded, monthlySavings) ==
  IF RLt(Zero, remainingNeeded) /\ RLt(Zero, monthlySavings)
  THEN MathCeil(RDiv(remainingNeeded, monthlySavings))
  ELSE Null

(* The month difference without the years *)
MonthsUntilTargetNoYear(targetDate, now) ==
  getMonth(targetDate) - getMonth(now)

(* monthsUntilTarget: calendar months between the two dates, days ignored *)
MonthsUntilTarget(targetDate, now) ==
  (getFullYear(targetDate) - getFullYear(now)) * 12
    + (getMonth(targetDate) - getMonth(now))

(* The reserves counted over the months left in the current year *)
calculateSavingsGoalReservesToYearEnd(homePrice, targetDownPaymentPercent, closingCosts, reserveMonths, monthlyHousingCost, currentSavings, monthlySavings, targetDate, now) ==
  LET downPaymentTarget == RMul(homePrice, RDiv(targetDownPaymentPercent, RInt(100)))
      reservesTarget == RMul(monthlyHousingCost, RInt(12 - getMonth(now)))
      targetAmount == RAdd(RAdd(downPaymentTarget, closingCosts), reservesTarget)
      remainingNeeded == RMax(Zero, RSub(targetAmount, currentSavings))
      progressPercentage ==
        RMin(RInt(100), RMul(RDiv(currentSavings, targetAmount), RInt(100)))
      monthsToGoal == MonthsToGoal(remainingNeeded, monthlySavings)
      calculatedTargetDate ==
        IF monthsToGoal = Null THEN Null
        ELSE setMonth(now, getMonth(now) + monthsToGoal[1])
      monthsUntilTarget == MonthsUntilTarget(targetDate[1], now)
      monthlyRequired ==
        IF RLt(Zero, remainingNeeded) /\ targetDate # <<>> /\ monthsUntilTarget > 0
        THEN RDiv(remainingNeeded, RInt(monthsUntilTarget))
        ELSE Null
  IN [targetAmount |-> targetAmount,
      downPaymentTarget |-> downPaymentTarget,
      closingCostsTarget |-> closingCosts,
      reservesTarget |-> reservesTarget,
      currentProgress |-> currentSavings,
      remainingNeeded |-> remainingNeeded,
      monthsToGoal |-> monthsToGoal,
      targetDate |-> Nullish(targetDate, calculatedTargetDate),
      monthlyRequired |-> monthlyRequired,
      progressPercentage |-> progressPercentage]

(* targetDate is the optional argument; now is what new Date() returns *)
calculateSavingsGoal(homePrice, targetDownPaymentPercent, closingCosts, reserveMonths, monthlyHousingCost, currentSavings, monthlySavings, targetDate, now) ==
  LET downPaymentTarget == RMul(homePrice, RDiv(targetDownPaymentPercent, RInt(100)))
      reservesTarget == RMul(monthlyHousingCost, reserveMonths)
      targetAmount == RAdd(RAdd(downPaymentTarget, closingCosts), reservesTarget)
      remainingNeeded == RMax(Zero, RSub(targetAmount, currentSavings))
      progressPercentage ==
        RMin(RInt(100), RMul(RDiv(currentSavings, targetAmount), RInt(100)))
      monthsToGoal == MonthsToGoal(remainingNeeded, monthlySavings)
      calculatedTargetDate ==
        IF monthsToGoal = Null THEN Null
        ELSE setMonth(now, getMonth(now) + monthsToGoal[1])
      monthsUntilTarget == MonthsUntilTarget(targetDate[1], now)
      monthlyRequired ==
        IF RLt(Zero, remainingNeeded) /\ targetDate # <<>> /\ monthsUntilTarget > 0
        THEN RDiv(remainingNeeded, RInt(monthsUntilTarget))
        ELSE Null
  IN [targetAmount |-> targetAmount,
      downPaymentTarget |-> downPaymentTarget,
      closingCostsTarget |-> closingCosts,
      reservesTarget |-> reservesTarget,
      currentProgress |-> currentSavings,
      remainingNeeded |-> remainingNeeded,
      monthsToGoal |-> monthsToGoal,
      targetDate |-> Nullish(targetDate, calculatedTargetDate),
      monthlyRequired |-> monthlyRequired,
      progressPercentage |-> progressPercentage]

-----------------------------------------------------------------------------
(* Inputs of the amortization calls.

   TLC's integers are 32-bit.  At a positive rate the exact payment has the
   numerator (1 + r)^n, so positive rates are enumerated where that and the
   running totals fit: the monthly rates 1/2, 1 and 2 over one year for
   principals up to MaxRatedPrincipal, and the monthly rate 1 over two years
   for the principals 0 and 1.  Rates <= 0 take the straight-line branch and
   are enumerated for every principal and term, fractional terms included. *)

MaxYears == 2

MaxRatedPrincipal == 1200

RInts(S) == {RInt(i) : i \in S}

Years == RInts(1 .. MaxYears) \cup {<<1, 10>>, <<1, 2>>, <<11, 10>>}

AmortPrincipals ==
  RInts({-100, 0, 1, 50, 100, 240, 360, 500, 1000, 1200, 4095, 120000, 300000})

AmortRates == RInts({-1200, 0, 600, 1200, 2400})

AmortInputs ==
  {in \in [principal : AmortPrincipals, annualRate : AmortRates, years : Years] :
     \/ RLe(in.annualRate, Zero)
     \/ /\ in.years = One
        /\ RLe(in.principal, RInt(MaxRatedPrincipal))
     \/ /\ in.years = RInt(2)
        /\ in.annualRate = RInt(1200)
        /\ in.principal \in RInts({0, 1}) }

Idle == [pc |-> "idle"]

-----------------------------------------------------------------------------
(* generateAmortizationSchedule(principal, annualRate, years), one action per
   step: the entry, each pass of the loop, and the return. *)

AmortEnter ==
  /\ amort.pc = "call"
  /\ amort' = [amort EXCEPT
       !.pc = "loop",
       !.monthlyPayment =
          calculateMortgagePayment(amort.principal, amort.annualRate, amort.years),
       !.monthlyRate = RDiv(RDiv(amort.annualRate, RInt(100)), RInt(12)),
       !.numberOfPayments = RMul(amort.years, RInt(12)),
       !.rows = <<>>,
       !.balance = amort.principal,
       !.cumulativeInterest = Zero,
       !.cumulativePrincipal = Zero,
       !.month = 1]
  /\ UNCHANGED <<tax, scen, dti, pay, stress, pmi, goal, ui, mkt, share>>

AmortLoop ==
  /\ amort.pc = "loop"
  /\ LoopContinues(amort)
  /\ LET row == AmortizationRow(amort)
     IN amort' = [amort EXCEPT
          !.rows = Append(amort.rows, row),
          !.balance = row.balance,
          !.cumulativeInterest = row.cumulativeInterest,
          !.cumulativePrincipal = row.cumulativePrincipal,
          !.month = amort.month + 1]
  /\ UNCHANGED <<tax, scen, dti, pay, stress, pmi, goal, ui, mkt, share>>

AmortReturn ==
  /\ amort.pc = "loop"
  /\ ~LoopContinues(amort)
  /\ amort' = [amort EXCEPT !.pc = "done", !.schedule = AmortizationSchedule(amort)]
  /\ UNCHANGED <<tax, scen, dti, pay, stress, pmi, goal, ui, mkt, share>>

AmortCall(in) ==
  [pc |-> "call",
   principal |-> in.principal,
   annualRate |-> in.annualRate,
   years |-> in.years,
   monthlyPayment |-> Zero,
   monthlyRate |-> Zero,
   numberOfPayments |-> Zero,
   month |-> 0,
   balance |-> Zero,
   cumulativeInterest |-> Zero,
   cumulativePrincipal |-> Zero,
   rows |-> <<>>,
   schedule |-> <<>>]

-----------------------------------------------------------------------------
(* calculateTexasPropertyTax(homePrice, taxRate, exemptions) *)

TaxHomePrices == RInts({-1000, 0, 8000, 200000, 300000})

TaxRates == RInts({0, 2})

(* The six ratings the select offers, and 20 for a stored state's stray value *)
VeteranRatings == {0, 10, 20, 30, 50, 70, 100}

ExemptionRecords ==
  [homestead : BOOLEAN,
   over65 : BOOLEAN,
   disabled : BOOLEAN,
   veteranDisability : VeteranRatings,
   localOptionalPercent : RInts({-5, 0, 1, 20}),
   agriculturalExemption : BOOLEAN,
   customExemptionAmount : RInts({-500, 0, 2500, 250000})]

TaxCall(homePrice, taxRate, exemptions) ==
  [pc |-> "call",
   homePrice |-> homePrice,
   taxRate |-> taxRate,
   exemptions |-> exemptions,
   total |-> Zero,
   result |-> <<>>]

CalculateTexasPropertyTax ==
  /\ tax.pc = "call"
  /\ tax' = [tax EXCEPT
       !.pc = "done",
       !.total = TotalAtReturn(tax.homePrice, tax.exemptions),
       !.result = calculateTexasPropertyTax(tax.homePrice, tax.taxRate, tax.exemptions)]
  /\ UNCHANGED <<amort, scen, dti, pay, stress, pmi, goal, ui, mkt, share>>

-----------------------------------------------------------------------------
(* calculateScenario on the income scenarios of calculateIncomeScenarios, as
   useCalculator calls it.  A positive rate is enumerated for the one-year
   term only (see the amortization inputs). *)

ScenInputs ==
  {in \in [homePrice : RInts({1200, 12000}),
           downPayment : RInts({0, 1200, 20000}),
           interestRate : RInts({0, 1200}),
           loanTerm : RInts(1 .. MaxYears),
           annualPropertyTax : RInts({0, 1200}),
           annualInsurance : RInts({0, 600}),
           monthlyUtilities : RInts({0, 50}),
           income : [person1 : RInts({0, 1000}),
                     person2Base : RInts({-400, 0, 400, 600, 4000}),
                     person2Variable : RInts({0, 200, 4000})]] :
     RLe(in.interestRate, Zero) \/ in.loanTerm = One}

ScenCall(in) ==
  [pc |-> "call",
   args |-> in,
   incomeScenarios |-> <<>>,
   result |-> <<>>]

CalculateScenario ==
  /\ scen.pc = "call"
  /\ LET in == scen.args
         incomeScenarios == calculateIncomeScenarios(in.income)
     IN scen' = [scen EXCEPT
          !.pc = "done",
          !.incomeScenarios = incomeScenarios,
          !.result = calculateScenario(in.homePrice, in.downPayment, in.interestRate,
                       in.loanTerm, in.annualPropertyTax, in.annualInsurance,
                       in.monthlyUtilities, incomeScenarios)]
  /\ UNCHANGED <<amort, tax, dti, pay, stress, pmi, goal, ui, mkt, share>>

-----------------------------------------------------------------------------
(* calculateDTI(grossMonthlyIncome, housingCosts, otherDebt) *)

DebtObligations ==
  [carPayments : RInts({0, 80}),
   studentLoans : RInts({0, 70}),
   creditCards : RInts({0, 50}),
   otherDebt : RInts({0, 1}),
   childSupport : RInts({0, 120})]

DtiIncomes == RInts({-100, 0, 1000})

DtiHousingCosts == RInts({0, 280, 281, 310, 311, 360, 430, 431, 500})

DtiCall(grossMonthlyIncome, housingCosts, otherDebt) ==
  [pc |-> "call",
   grossMonthlyIncome |-> grossMonthlyIncome,
   housingCosts |-> housingCosts,
   otherDebt |-> otherDebt,
   result |-> <<>>]

CalculateDTI ==
  /\ dti.pc = "call"
  /\ dti' = [dti EXCEPT
       !.pc = "done",
       !.result = calculateDTI(dti.grossMonthlyIncome, dti.housingCosts, dti.otherDebt)]
  /\ UNCHANGED <<amort, tax, scen, pay, stress, pmi, goal, ui, mkt, share>>

-----------------------------------------------------------------------------
(* stressTestScenario(principal, baseRate, loanTerm, ..., rateIncrements).
   The increments are any list of up to MaxIncrements numbers, in any order
   and with repeats; every baseRate + increment is <= 0 or one of the
   positive rates of the amortization inputs. *)

MaxIncrements == 3

SeqsUpTo(S, n) == UNION {[1 .. k -> S] : k \in 0 .. n}

StressRates == RInts({-600, 0, 600, 1200})

StressInputs ==
  {in \in [principal : RInts({-100, 0, 1200}),
           baseRate : StressRates,
           loanTerm : {One},
           annualPropertyTax : {RInt(1200)},
           annualInsurance : {Zero},
           monthlyUtilities : RInts({80, 81, 160, 161}),
           grossMonthlyIncome : RInts({0, 1000}),
           otherDebt : {d \in DebtObligations :
                          /\ d.studentLoans = Zero /\ d.creditCards = Zero
                          /\ d.otherDebt = Zero /\ d.childSupport = Zero},
           rateIncrements : SeqsUpTo(StressRates, MaxIncrements)] :
     \A i \in 1 .. Len(in.rateIncrements) :
        LET newRate == RAdd(in.baseRate, in.rateIncrements[i])
        IN RLe(newRate, Zero) \/ newRate \in RInts({600, 1200, 2400})}

StressCall(in) ==
  [pc |-> "call",
   args |-> in,
   result |-> <<>>]

StressTestScenario ==
  /\ stress.pc = "call"
  /\ LET in == stress.args
     IN stress' = [stress EXCEPT
          !.pc = "done",
          !.result = stressTestScenario(in.principal, in.baseRate, in.loanTerm,
                       in.annualPropertyTax, in.annualInsurance, in.monthlyUtilities,
                       in.grossMonthlyIncome, in.otherDebt, in.rateIncrements)]
  /\ UNCHANGED <<amort, tax, scen, dti, pay, pmi, goal, ui, mkt, share>>

-----------------------------------------------------------------------------
(* calculatePMI(loanAmount, homePrice, annualPMIRate, amortization?).  With a
   schedule it is called as the amortization page calls it: on the schedule
   generateAmortizationSchedule returned for the same loan amount. *)

PmiHomePrices == RInts({-100, 0, 300, 450, 1250, 150000})

PmiRates == {<<1, 2>>, One}

PmiCall(loanAmount, homePrice, annualPMIRate, withSchedule) ==
  [pc |-> "call",
   loanAmount |-> loanAmount,
   homePrice |-> homePrice,
   annualPMIRate |-> annualPMIRate,
   withSchedule |-> withSchedule,
   result |-> <<>>]

CalculatePMI ==
  /\ pmi.pc = "call"
  /\ pmi.withSchedule => amort.pc = "done"
  /\ pmi' = [pmi EXCEPT
       !.pc = "done",
       !.result = calculatePMI(pmi.loanAmount, pmi.homePrice, pmi.annualPMIRate,
                               IF pmi.withSchedule THEN <<amort.schedule>> ELSE <<>>)]
  /\ UNCHANGED <<amort, tax, scen, dti, pay, stress, goal, ui, mkt, share>>

-----------------------------------------------------------------------------
(* calculateMortgagePayment(principal, annualRate, years) on its own.  The
   terms are those of the amortization inputs and 0, 10 and -1 years; a
   positive rate is enumerated where the amortization inputs have one. *)

PaymentYears == Years \cup RInts({-1, 0, 10})

PaymentInputs ==
  {in \in [principal : AmortPrincipals, annualRate : AmortRates, years : PaymentYears] :
     \/ RLe(in.annualRate, Zero)
     \/ RLe(in.principal, Zero)
     \/ in \in AmortInputs}

PaymentCall(in) ==
  [pc |-> "call",
   principal |-> in.principal,
   annualRate |-> in.annualRate,
   years |-> in.years,
   result |-> <<>>]

CalculateMortgagePayment ==
  /\ pay.pc = "call"
  /\ pay' = [pay EXCEPT
       !.pc = "done",
       !.result = calculateMortgagePayment(pay.principal, pay.annualRate, pay.years)]
  /\ UNCHANGED <<amort, tax, scen, dti, stress, pmi, goal, ui, mkt, share>>

-----------------------------------------------------------------------------
(* The calculator state's exemptions: how the provider initialises them (a
   share link, else the stored state, else the defaults) and how the
   handlers of the TaxExemptions form change them through the reducer. *)

defaultExemptions ==
  [homestead |-> TRUE,
   over65 |-> FALSE,
   disabled |-> FALSE,
   veteranDisability |-> 0,
   localOptionalPercent |-> Zero,
   agriculturalExemption |-> FALSE,
   customExemptionAmount |-> Zero]

OptionOf(S) == {<<>>} \cup {<<v>> : v \in S}

(* The exemption keys of a share link's JSON, each present or missing *)
ShareableStates ==
  [hs : OptionOf(BOOLEAN),
   o65 : OptionOf(BOOLEAN),
   dis : OptionOf(BOOLEAN),
   vd : OptionOf(VeteranRatings),
   lop : OptionOf({RInt(20)}),
   ag : OptionOf(BOOLEAN),
   ce : OptionOf({RInt(2500)})]

(* The exemptions decodeStateFromURL builds from the parsed link *)
decodeStateFromURL(shareable) ==
  [homestead |-> Nullish(shareable.hs, TRUE),
   over65 |-> Nullish(shareable.o65, FALSE),
   disabled |-> Nullish(shareable.dis, FALSE),
   veteranDisability |->
     IF Nullish(shareable.vd, 0) \in {0, 10, 30, 50, 70, 100}
     THEN Nullish(shareable.vd, 0) ELSE 0,
   localOptionalPercent |-> Nullish(shareable.lop, Zero),
   agriculturalExemption |-> Nullish(shareable.ag, FALSE),
   customExemptionAmount |-> Nullish(shareable.ce, Zero)]

(* What JSON.parse of the stored state can hold: any exemptions object *)
StoredExemptions ==
  [homestead : BOOLEAN,
   over65 : BOOLEAN,
   disabled : BOOLEAN,
   veteranDisability : VeteranRatings,
   localOptionalPercent : RInts({0, 20}),
   agriculturalExemption : BOOLEAN,
   customExemptionAmount : RInts({0, 2500})]

(* The reducer's initializer: urlState and stored are optional *)
CalculatorProviderInit(urlState, stored) ==
  IF urlState # <<>> THEN urlState[1]
  ELSE Nullish(stored, defaultExemptions)

(* case 'SET_EXEMPTION' of calculatorReducer *)
calculatorReducer(exemptions, field, value) == [exemptions EXCEPT ![field] = value]

UiState(exemptions) == [pc |-> "ready", exemptions |-> exemptions]

OnChangeHomestead ==
  /\ ui.pc = "ready"
  /\ \E v \in BOOLEAN :
       ui' = UiState(calculatorReducer(ui.exemptions, "homestead", v))
  /\ UNCHANGED <<amort, tax, scen, dti, pay, stress, pmi, goal, mkt, share>>

(* The onChange of the over65 and disabled checkboxes: the first dispatch
   sets the flag, the second clears the other flag when the box is checked *)
OnChangeExclusive(exemptions, field, other, v) ==
  LET first == calculatorReducer(exemptions, field, v)
  IN IF v THEN calculatorReducer(first, other, FALSE) ELSE first

OnChangeOver65 ==
  /\ ui.pc = "ready"
  /\ \E v \in BOOLEAN :
       ui' = UiState(OnChangeExclusive(ui.exemptions, "over65", "disabled", v))
  /\ UNCHANGED <<amort, tax, scen, dti, pay, stress, pmi, goal, mkt, share>>

OnChangeDisabled ==
  /\ ui.pc = "ready"
  /\ \E v \in BOOLEAN :
       ui' = UiState(OnChangeExclusive(ui.exemptions, "disabled", "over65", v))
  /\ UNCHANGED <<amort, tax, scen, dti, pay, stress, pmi, goal, mkt, share>>

OnChangeAgricultural ==
  /\ ui.pc = "ready"
  /\ \E v \in BOOLEAN :
       ui' = UiState(calculatorReducer(ui.exemptions, "agriculturalExemption", v))
  /\ UNCHANGED <<amort, tax, scen, dti, pay, stress, pmi, goal, mkt, share>>

OnChangeVeteranDisability ==
  /\ ui.pc = "ready"
  /\ \E v \in {0, 10, 30, 50, 70, 100} :
       ui' = UiState(calculatorReducer(ui.exemptions, "veteranDisability", v))
  /\ UNCHANGED <<amort, tax, scen, dti, pay, stress, pmi, goal, mkt, share>>

OnChangeLocalOptionalPercent ==
  /\ ui.pc = "ready"
  /\ \E v \in RInts({0, 20}) :
       ui' = UiState(calculatorReducer(ui.exemptions, "localOptionalPercent", v))
  /\ UNCHANGED <<amort, tax, scen, dti, pay, stress, pmi, goal, mkt, share>>

OnChangeCustomExemptionAmount ==
  /\ ui.pc = "ready"
  /\ \E v \in RInts({0, 2500}) :
       ui' = UiState(calculatorReducer(ui.exemptions, "customExemptionAmount", v))
  /\ UNCHANGED <<amort, tax, scen, dti, pay, stress, pmi, goal, mkt, share>>

-----------------------------------------------------------------------------
(* calculateSavingsGoal(homePrice, targetDownPaymentPercent, closingCosts,
   reserveMonths, monthlyHousingCost, currentSavings, monthlySavings,
   targetDate?), called on a day of Todays. *)

Todays == {<<2025, 0, 31>>, <<2025, 5, 15>>, <<2023, 11, 30>>}

GoalTargetDates == OptionOf({<<2024, 0, 1>>, <<2025, 5, 30>>, <<2025, 8, 1>>})

GoalInputs ==
  [homePrice : RInts({0, 1000, 300000}),
   targetDownPaymentPercent : RInts({0, 20}),
   closingCosts : RInts({0, 500}),
   reserveMonths : RInts({0, 3}),
   monthlyHousingCost : RInts({0, 100}),
   currentSavings : RInts({0, 100, 700, 70000}),
   monthlySavings : RInts({-50, 0, 7, 300}),
   targetDate : GoalTargetDates,
   now : Todays]

GoalCall(in) ==
  [pc |-> "call",
   args |-> in,
   result |-> <<>>,
   nowAgain |-> <<>>,
   resultAgain |-> <<>>]

CalculateSavingsGoal ==
  /\ goal.pc = "call"
  /\ LET in == goal.args
     IN goal' = [goal EXCEPT
          !.pc = "done",
          !.result = calculateSavingsGoal(in.homePrice, in.targetDownPaymentPercent,
                       in.closingCosts, in.reserveMonths, in.monthlyHousingCost,
                       in.currentSavings, in.monthlySavings, in.targetDate, in.now)]
  /\ UNCHANGED <<amort, tax, scen, dti, pay, stress, pmi, ui, mkt, share>>

(* The same call made again, with the same arguments, on a day of Todays *)
CalculateSavingsGoalAgain ==
  /\ goal.pc = "done"
  /\ \E now \in Todays :
       LET in == goal.args
       IN goal' = [goal EXCEPT
            !.pc = "again",
            !.nowAgain = now,
            !.resultAgain = calculateSavingsGoal(in.homePrice, in.targetDownPaymentPercent,
                              in.closingCosts, in.reserveMonths, in.monthlyHousingCost,
                              in.currentSavings, in.monthlySavings, in.targetDate, now)]
  /\ UNCHANGED <<amort, tax, scen, dti, pay, stress, pmi, ui, mkt, share>>

-----------------------------------------------------------------------------
(* Share links: encodeStateToURL and decodeStateFromURL.  A JSON text is the
   record of its keys, each holding <<value>> or <<>> for null or a missing
   key.  LZString is a lossless codec: an encoded string is <<json>>, and a
   string that is no LZString output is <<>>. *)

NumberKeys == {"i1", "i2b", "i2v", "exp", "pp", "cr", "ar", "lt", "ptr", "ins", "util", "lop", "ce", "sc", "sm"}

(* JSON.stringify writes null for NaN and the infinities *)
JSONStringify(shareable) ==
  [k \in DOMAIN shareable |->
     IF k \in NumberKeys /\ ~IsFinite(shareable[k]) THEN <<>> ELSE <<shareable[k]>>]

JSONParse(json) == json

compressToEncodedURIComponent(json) == <<json>>

decompressFromEncodedURIComponent(encoded) == encoded

(* The shareable object with currentRate and altRate under each other's key *)
ShareableOfRatesSwapped(state) ==
  [i1 |-> state.income.person1,
   i2b |-> state.income.person2Base,
   i2v |-> state.income.person2Variable,
   exp |-> state.expenses,
   pp |-> state.property.price,
   cr |-> state.property.altRate,
   ar |-> state.property.currentRate,
   lt |-> state.property.loanTerm,
   ptr |-> state.property.propertyTaxRate,
   ins |-> state.property.insurance,
   util |-> state.property.utilities,
   hs |-> state.property.exemptions.homestead,
   o65 |-> state.property.exemptions.over65,
   dis |-> state.property.exemptions.disabled,
   vd |-> state.property.exemptions.veteranDisability,
   lop |-> state.property.exemptions.localOptionalPercent,
   ag |-> state.property.exemptions.agriculturalExemption,
   ce |-> state.property.exemptions.customExemptionAmount,
   sc |-> state.savings.current,
   sm |-> state.savings.monthly,
   smo |-> state.savings.manualOverride,
   pe |-> state.purchaseDates.early,
   pd |-> state.purchaseDates.delayed]

(* The shareable object of encodeStateToURL *)
ShareableOf(state) ==
  [i1 |-> state.income.person1,
   i2b |-> state.income.person2Base,
   i2v |-> state.income.person2Variable,
   exp |-> state.expenses,
   pp |-> state.property.price,
   cr |-> state.property.currentRate,
   ar |-> state.property.altRate,
   lt |-> state.property.loanTerm,
   ptr |-> state.property.propertyTaxRate,
   ins |-> state.property.insurance,
   util |-> state.property.utilities,
   hs |-> state.property.exemptions.homestead,
   o65 |-> state.property.exemptions.over65,
   dis |-> state.property.exemptions.disabled,
   vd |-> state.property.exemptions.veteranDisability,
   lop |-> state.property.exemptions.localOptionalPercent,
   ag |-> state.property.exemptions.agriculturalExemption,
   ce |-> state.property.exemptions.customExemptionAmount,
   sc |-> state.savings.current,
   sm |-> state.savings.monthly,
   smo |-> state.savings.manualOverride,
   pe |-> state.purchaseDates.early,
   pd |-> state.purchaseDates.delayed]

encodeStateToURL(state) ==
  compressToEncodedURIComponent(JSONStringify(ShareableOf(state)))

(* The object decodeStateFromURL returns for a parsed link *)
DecodedState(shareable) ==
  [income |-> [person1 |-> Nullish(shareable.i1, Zero),
               person2Base |-> Nullish(shareable.i2b, Zero),
               person2Variable |-> Nullish(shareable.i2v, Zero),
               variableMode |-> "simple"],
   expenses |-> Nullish(shareable.exp, Zero),
   property |-> [price |-> Nullish(shareable.pp, RInt(400000)),
                 currentRate |-> Nullish(shareable.cr, <<13, 2>>),
                 altRate |-> Nullish(shareable.ar, <<11, 2>>),
                 loanTerm |-> Nullish(shareable.lt, RInt(30)),
                 propertyTaxRate |-> Nullish(shareable.ptr, <<21, 10>>),
                 insurance |-> Nullish(shareable.ins, RInt(2400)),
                 utilities |-> Nullish(shareable.util, RInt(300)),
                 exemptions |-> decodeStateFromURL(shareable)],
   savings |-> [current |-> Nullish(shareable.sc, Zero),
                monthly |-> Nullish(shareable.sm, Zero),
                manualOverride |-> Nullish(shareable.smo, FALSE)],
   purchaseDates |-> [early |-> Nullish(shareable.pe, ""),
                      delayed |-> Nullish(shareable.pd, "")]]

(* decodeStateFromURL as a whole: null for a string that does not decompress *)
DecodeLink(encoded) ==
  LET json == decompressFromEncodedURIComponent(encoded)
  IN IF json = Null THEN Null ELSE <<DecodedState(JSONParse(json[1]))>>

(* Calculator states to share: the initial state and variations of it,
   among them numbers that are not finite and a rating that is not allowed *)
ShareExemptions ==
  {e \in StoredExemptions : e.homestead /\ ~e.agriculturalExemption /\ ~e.disabled}

CalculatorStates ==
  [income : [person1 : RInts({0, 5000}),
             person2Base : {Zero},
             person2Variable : RInts({1000}),
             variableMode : {"simple", "detailed"}],
   expenses : RInts({2000}),
   property : [price : RInts({0, 275000}) \cup {NaN},
               currentRate : {<<63, 10>>},
               altRate : {<<7, 2>>},
               loanTerm : RInts({15, 20}),
               propertyTaxRate : {<<153, 100>>},
               insurance : RInts({2875}),
               utilities : RInts({500}) \cup {<<1, 0>>},
               exemptions : ShareExemptions],
   savings : [current : RInts({0, 70000}),
              monthly : RInts({-50}),
              manualOverride : BOOLEAN],
   purchaseDates : [early : {"", "2026-05-01"},
                    delayed : {"2026-12-01"}]]

(* Links that encodeStateToURL did not write: a string that does not
   decompress, and JSON with keys missing or an unknown rating *)
ForeignLinks ==
  {<<>>} \cup
  {compressToEncodedURIComponent(
     [JSONStringify(ShareableOf(st)) EXCEPT !.vd = vd, !.pp = pp, !.smo = smo]) :
       st \in {x \in CalculatorStates :
                 /\ x.income.person1 = Zero /\ x.income.variableMode = "simple"
                 /\ x.property.loanTerm = RInt(20)
                 /\ x.property.utilities = RInt(500)
                 /\ x.property.exemptions = defaultExemptions
                 /\ x.savings.current = Zero /\ ~x.savings.manualOverride
                 /\ x.purchaseDates.early = ""},
       vd \in OptionOf({10, 20, 45}),
       pp \in OptionOf({Zero}),
       smo \in OptionOf({TRUE})}

ShareState(state) ==
  [pc |-> "share", state |-> <<state>>, encoded |-> <<>>, decoded |-> <<>>]

OpenState(encoded) ==
  [pc |-> "open", state |-> <<>>, encoded |-> encoded, decoded |-> <<>>]

EncodeStateToURL ==
  /\ share.pc = "share"
  /\ share' = [share EXCEPT !.pc = "open",
                            !.encoded = encodeStateToURL(share.state[1])]
  /\ UNCHANGED <<amort, tax, scen, dti, pay, stress, pmi, goal, ui, mkt>>

DecodeStateFromURL ==
  /\ share.pc = "open"
  /\ share' = [share EXCEPT !.pc = "decoded",
                            !.decoded = DecodeLink(share.encoded)]
  /\ UNCHANGED <<amort, tax, scen, dti, pay, stress, pmi, goal, ui, mkt>>

-----------------------------------------------------------------------------
(* Mortgage rates service: fetchMortgageRates over the cache manager and the
   FRED API.  The clock counts hours.  The memory cache and localStorage are
   written together and read in that order, so they are one cache entry
   here.  A FRED response is an observation or a failed request. *)

TtlHours == 4

MaxClock == 6

(* parseFloat of an observation's value; FRED writes "." for a missing one *)
parseFloat(value) ==
  IF value = "6.75" THEN <<27, 4>>
  ELSE IF value = "7.5" THEN <<15, 2>>
  ELSE NaN

FREDObservations == [date : {"2025-01-02"}, value : {"6.75", "7.5", "."}]

Rejected == <<>>

ApiOutcomes == {Rejected} \cup {<<o>> : o \in FREDObservations}

FALLBACK_RATES ==
  [rate30Year |-> <<13, 2>>, rate15Year |-> <<23, 4>>, rate5YearArm |-> RInt(6),
   asOf |-> "2025-01-01", source |-> "fallback", lastUpdated |-> 0]

getFallbackRates(now) == [FALLBACK_RATES EXCEPT !.lastUpdated = now]

(* cacheManager.get: the data of the entry, or null *)
CacheGet(cache) == IF cache = <<>> THEN Null ELSE <<cache[1].data>>

(* cacheManager.isExpired *)
isExpired(cache, now) == cache = <<>> \/ now > cache[1].expiresAt

(* cacheManager.set *)
CacheSet(data, now) ==
  <<[data |-> data, timestamp |-> now, expiresAt |-> now + TtlHours]>>

(* The stale entry handed back as it is *)
RatesOnFailureUnlabelled(cached, now) ==
  IF cached # Null THEN cached[1] ELSE getFallbackRates(now)

(* The catch block *)
RatesOnFailure(cached, now) ==
  IF cached # Null THEN [cached[1] EXCEPT !.source = "fallback"]
  ELSE getFallbackRates(now)

(* The two awaited observations: a failed request throws, and so does a
   value that does not parse *)
ObservationsFail(r30, r15) ==
  \/ r30 = Rejected
  \/ r15 = Rejected
  \/ IsNaN(parseFloat(r30[1].value))
  \/ IsNaN(parseFloat(r15[1].value))

RatesData(r30, r15, now) ==
  [rate30Year |-> parseFloat(r30[1].value),
   rate15Year |-> parseFloat(r15[1].value),
   rate5YearArm |-> Null,
   asOf |-> r30[1].date,
   source |-> "fred",
   lastUpdated |-> now]

(* The optional 5/1 ARM rate: kept only when the request succeeds and parses *)
WithArmRate(data, r5) ==
  IF r5 # Rejected /\ ~IsNaN(parseFloat(r5[1].value))
  THEN [data EXCEPT !.rate5YearArm = parseFloat(r5[1].value)]
  ELSE data

MktState(clock, cache, configured) ==
  [pc |-> "ready", clock |-> clock, cache |-> cache, configured |-> configured,
   cached |-> Null, data |-> Null, settled |-> "pending", result |-> Null,
   cacheAtEntry |-> cache, clockAtEntry |-> clock,
   calledApi |-> FALSE, apiFailed |-> FALSE]

(* fetchMortgageRates up to its first await *)
FetchMortgageRates ==
  /\ mkt.pc = "ready"
  /\ LET cached == CacheGet(mkt.cache)
         entered == [mkt EXCEPT !.cached = cached,
                                !.cacheAtEntry = mkt.cache,
                                !.clockAtEntry = mkt.clock]
     IN mkt' =
          IF cached # Null /\ ~isExpired(mkt.cache, mkt.clock)
          THEN [entered EXCEPT !.pc = "returned", !.settled = "fulfilled",
                               !.result = cached]
          ELSE IF ~mkt.configured
          THEN [entered EXCEPT !.pc = "returned", !.settled = "fulfilled",
                               !.result = <<getFallbackRates(mkt.clock)>>]
          ELSE [entered EXCEPT !.pc = "observations", !.calledApi = TRUE]
  /\ UNCHANGED <<amort, tax, scen, dti, pay, stress, pmi, goal, ui, share>>

(* The 30-year and 15-year requests settle *)
FetchObservations ==
  /\ mkt.pc = "observations"
  /\ \E r30 \in ApiOutcomes, r15 \in ApiOutcomes :
       mkt' =
         IF ObservationsFail(r30, r15)
         THEN [mkt EXCEPT !.pc = "returned", !.settled = "fulfilled",
                          !.apiFailed = TRUE,
                          !.result = <<RatesOnFailure(mkt.cached, mkt.clock)>>]
         ELSE [mkt EXCEPT !.pc = "arm",
                          !.data = <<RatesData(r30, r15, mkt.clock)>>]
  /\ UNCHANGED <<amort, tax, scen, dti, pay, stress, pmi, goal, ui, share>>

(* The 5/1 ARM request settles; the cache is written and the data returned *)
FetchArm ==
  /\ mkt.pc = "arm"
  /\ \E r5 \in ApiOutcomes :
       LET data == WithArmRate(mkt.data[1], r5)
       IN mkt' = [mkt EXCEPT !.pc = "returned", !.settled = "fulfilled",
                             !.data = <<data>>,
                             !.cache = CacheSet(data, mkt.clock),
                             !.result = <<data>>]
  /\ UNCHANGED <<amort, tax, scen, dti, pay, stress, pmi, goal, ui, share>>

(* refreshRates called again after the previous call has settled *)
RefreshRates ==
  /\ mkt.pc = "returned"
  /\ mkt' = MktState(mkt.clock, mkt.cache, mkt.configured)
  /\ UNCHANGED <<amort, tax, scen, dti, pay, stress, pmi, goal, ui, share>>

(* An hour passes *)
Tick ==
  /\ mkt.pc \in {"ready", "observations", "arm", "returned"}
  /\ mkt.clock < MaxClock
  /\ mkt' = [mkt EXCEPT !.clock = mkt.clock + 1]
  /\ UNCHANGED <<amort, tax, scen, dti, pay, stress, pmi, goal, ui, share>>

(* A cache entry left in localStorage by an earlier session *)
StoredCacheEntries ==
  {<<>>} \cup
  {<<[data |-> RatesData(<<o>>, <<o>>, e - TtlHours), timestamp |-> e - TtlHours, expiresAt |-> e]>> :
     o \in {x \in FREDObservations : x.value = "6.75"}, e \in {-1, 2}}

-----------------------------------------------------------------------------
(* Specifications: one per engine function, each starting from a call with
   its arguments drawn from the input sets. *)

InitAmort ==
  /\ mkt = Idle /\ share = Idle
  /\ amort \in {AmortCall(in) : in \in AmortInputs}
  /\ tax = Idle
  /\ scen = Idle
  /\ dti = Idle
  /\ pay = Idle /\ stress = Idle /\ pmi = Idle /\ goal = Idle /\ ui = Idle

NextAmort == AmortEnter \/ AmortLoop \/ AmortReturn

SpecAmort == InitAmort /\ [][NextAmort]_vars

InitTax ==
  /\ mkt = Idle /\ share = Idle
  /\ amort = Idle
  /\ tax \in {TaxCall(hp, tr, ex) :
                hp \in TaxHomePrices, tr \in TaxRates, ex \in ExemptionRecords}
  /\ scen = Idle
  /\ dti = Idle
  /\ pay = Idle /\ stress = Idle /\ pmi = Idle /\ goal = Idle /\ ui = Idle

NextTax == CalculateTexasPropertyTax

SpecTax == InitTax /\ [][NextTax]_vars

InitScen ==
  /\ mkt = Idle /\ share = Idle
  /\ amort = Idle
  /\ tax = Idle
  /\ scen \in {ScenCall(in) : in \in ScenInputs}
  /\ dti = Idle
  /\ pay = Idle /\ stress = Idle /\ pmi = Idle /\ goal = Idle /\ ui = Idle

NextScen == CalculateScenario

SpecScen == InitScen /\ [][NextScen]_vars

InitDTI ==
  /\ mkt = Idle /\ share = Idle
  /\ amort = Idle
  /\ tax = Idle
  /\ scen = Idle
  /\ dti \in {DtiCall(inc, h, d) :
                inc \in DtiIncomes, h \in DtiHousingCosts, d \in DebtObligations}
  /\ pay = Idle /\ stress = Idle /\ pmi = Idle /\ goal = Idle /\ ui = Idle

NextDTI == CalculateDTI

SpecDTI == InitDTI /\ [][NextDTI]_vars

InitStress ==
  /\ mkt = Idle /\ share = Idle
  /\ amort = Idle /\ tax = Idle /\ scen = Idle /\ dti = Idle
  /\ pay = Idle /\ pmi = Idle /\ goal = Idle /\ ui = Idle
  /\ stress \in {StressCall(in) : in \in StressInputs}

NextStress == StressTestScenario

SpecStress == InitStress /\ [][NextStress]_vars

InitPMI ==
  /\ mkt = Idle /\ share = Idle
  /\ tax = Idle /\ scen = Idle /\ dti = Idle
  /\ pay = Idle /\ stress = Idle /\ goal = Idle /\ ui = Idle
  /\ \/ \E in \in AmortInputs, hp \in PmiHomePrices, r \in PmiRates :
          /\ amort = AmortCall(in)
          /\ pmi = PmiCall(in.principal, hp, r, TRUE)
     \/ \E la \in AmortPrincipals, hp \in PmiHomePrices, r \in PmiRates :
          /\ amort = Idle
          /\ pmi = PmiCall(la, hp, r, FALSE)

NextPMI == AmortEnter \/ AmortLoop \/ AmortReturn \/ CalculatePMI

SpecPMI == InitPMI /\ [][NextPMI]_vars

InitPayment ==
  /\ mkt = Idle /\ share = Idle
  /\ amort = Idle /\ tax = Idle /\ scen = Idle /\ dti = Idle
  /\ stress = Idle /\ pmi = Idle /\ goal = Idle /\ ui = Idle
  /\ pay \in {PaymentCall(in) : in \in PaymentInputs}

NextPayment == CalculateMortgagePayment

SpecPayment == InitPayment /\ [][NextPayment]_vars

InitUI ==
  /\ mkt = Idle /\ share = Idle
  /\ amort = Idle /\ tax = Idle /\ scen = Idle /\ dti = Idle
  /\ pay = Idle /\ stress = Idle /\ pmi = Idle /\ goal = Idle
  /\ \/ \E shareable \in ShareableStates :
          ui = UiState(CalculatorProviderInit(<<decodeStateFromURL(shareable)>>, <<>>))
     \/ \E stored \in OptionOf(StoredExemptions) :
          ui = UiState(CalculatorProviderInit(<<>>, stored))

NextUI ==
  \/ OnChangeHomestead
  \/ OnChangeOver65
  \/ OnChangeDisabled
  \/ OnChangeAgricultural
  \/ OnChangeVeteranDisability
  \/ OnChangeLocalOptionalPercent
  \/ OnChangeCustomExemptionAmount

SpecUI == InitUI /\ [][NextUI]_vars

InitGoal ==
  /\ mkt = Idle /\ share = Idle
  /\ amort = Idle /\ tax = Idle /\ scen = Idle /\ dti = Idle
  /\ pay = Idle /\ stress = Idle /\ pmi = Idle /\ ui = Idle
  /\ goal \in {GoalCall(in) : in \in GoalInputs}

NextGoal == CalculateSavingsGoal \/ CalculateSavingsGoalAgain

SpecGoal == InitGoal /\ [][NextGoal]_vars

InitShare ==
  /\ amort = Idle /\ tax = Idle /\ scen = Idle /\ dti = Idle
  /\ pay = Idle /\ stress = Idle /\ pmi = Idle /\ goal = Idle /\ ui = Idle
  /\ mkt = Idle
  /\ \/ \E state \in CalculatorStates : share = ShareState(state)
     \/ \E encoded \in ForeignLinks : share = OpenState(encoded)

NextShare == EncodeStateToURL \/ DecodeStateFromURL

SpecShare == InitShare /\ [][NextShare]_vars

InitMkt ==
  /\ amort = Idle /\ tax = Idle /\ scen = Idle /\ dti = Idle
  /\ pay = Idle /\ stress = Idle /\ pmi = Idle /\ goal = Idle /\ ui = Idle
  /\ share = Idle
  /\ \E cache \in StoredCacheEntries, configured \in BOOLEAN :
       mkt = MktState(0, cache, configured)

NextMkt == FetchMortgageRates \/ FetchObservations \/ FetchArm \/ RefreshRates \/ Tick

SpecMkt == InitMkt /\ [][NextMkt]_vars

-----------------------------------------------------------------------------
(* Properties of the amortization schedule (SpecAmort) *)

AmortDone == amort.pc = "done"

(* principal >= 0 and annual rate >= 0 *)
AmortDomain == RLe(Zero, amort.principal) /\ RLe(Zero, amort.annualRate)

(* a whole number of years > 0 *)
WholeYears == IsWhole(amort.years) /\ RLt(Zero, amort.years)

LastRow == amort.schedule.rows[Len(amort.schedule.rows)]

PrincipalPortions ==
  [i \in 1 .. Len(amort.schedule.rows) |-> amort.schedule.rows[i].principal]

(* C1: for principal >= 0, rate >= 0 and a whole number of years > 0 the
   schedule has exactly years*12 rows, and row i has month = i. *)
C1_RowCountAndMonths ==
  AmortDone /\ AmortDomain /\ WholeYears =>
    /\ Len(amort.schedule.rows) = amort.years[1] * 12
    /\ \A i \in 1 .. Len(amort.schedule.rows) : amort.schedule.rows[i].month = i

C1_Witness ==
  /\ AmortDone
  /\ RLt(Zero, amort.principal)
  /\ RLt(Zero, amort.annualRate)
  /\ amort.years = RInt(2)
  /\ Len(amort.schedule.rows) = 24
  /\ amort.schedule.rows[24].month = 24

(* C2 as stated: for principal >= 0, rate >= 0 and years > 0 the last row has
   balance 0 and the principal portions of all rows sum to the principal. *)
C2_PaidOffAnyTerm ==
  AmortDone /\ AmortDomain /\ RLt(Zero, amort.years) =>
    /\ Len(amort.schedule.rows) > 0
    /\ LastRow.balance = Zero
    /\ RSum(PrincipalPortions) = amort.principal

(* C2 amended: the same for a whole number of years > 0. *)
C2_PaidOffWholeYears ==
  AmortDone /\ AmortDomain /\ WholeYears =>
    /\ Len(amort.schedule.rows) > 0
    /\ LastRow.balance = Zero
    /\ RSum(PrincipalPortions) = amort.principal

C2_Witness ==
  /\ AmortDone
  /\ RLt(Zero, amort.principal)
  /\ RLt(Zero, amort.annualRate)
  /\ WholeYears
  /\ RLt(Zero, amort.schedule.rows[Len(amort.schedule.rows) - 1].balance)
  /\ LastRow.balance = Zero
  /\ RSum(PrincipalPortions) = amort.principal

(* C3: for principal >= 0 and rate >= 0 no row's balance exceeds the balance
   of the row before it (the principal, for row 1), and no balance is
   negative.  Stated of the rows pushed so far, so of every schedule. *)
C3_BalanceNonIncreasing ==
  amort.pc \in {"loop", "done"} /\ AmortDomain =>
    \A i \in 1 .. Len(amort.rows) :
      /\ RLe(Zero, amort.rows[i].balance)
      /\ RLe(amort.rows[i].balance,
             IF i = 1 THEN amort.principal ELSE amort.rows[i - 1].balance)

C3_Witness ==
  /\ AmortDone
  /\ RLt(Zero, amort.annualRate)
  /\ Len(amort.rows) = 12
  /\ RLt(amort.rows[1].balance, amort.principal)
  /\ RLt(amort.rows[12].balance, amort.rows[11].balance)
  /\ amort.rows[12].balance = Zero

-----------------------------------------------------------------------------
(* Properties of the property tax calculator (SpecTax) *)

TaxDone == tax.pc = "done"

OnlySeniorFlags(ex) ==
  /\ ex.over65 /\ ex.disabled
  /\ ~ex.homestead /\ ~ex.agriculturalExemption
  /\ ex.veteranDisability = 0
  /\ ex.localOptionalPercent = Zero
  /\ ex.customExemptionAmount = Zero

TotalExemptionsOf(ex) ==
  calculateTexasPropertyTax(tax.homePrice, tax.taxRate, ex).totalExemptions

(* C4: with a rating other than 100 and over65 and disabled both set, the
   exemption total is the total with only one of the two flags set; for a
   price of 200000 with only these two flags it is 10000. *)
C4_SeniorCreditOnce ==
  /\ TaxDone
  /\ tax.exemptions.veteranDisability # 100
  /\ tax.exemptions.over65 /\ tax.exemptions.disabled
  =>
  /\ tax.result.totalExemptions =
       TotalExemptionsOf([tax.exemptions EXCEPT !.disabled = FALSE])
  /\ tax.result.totalExemptions =
       TotalExemptionsOf([tax.exemptions EXCEPT !.over65 = FALSE])
  /\ (tax.homePrice = RInt(200000) /\ OnlySeniorFlags(tax.exemptions)
        => tax.result.totalExemptions = RInt(10000))

C4_Witness ==
  /\ TaxDone
  /\ tax.homePrice = RInt(200000)
  /\ OnlySeniorFlags(tax.exemptions)
  /\ tax.result.totalExemptions = RInt(10000)

(* C5: with veteranDisability = 100 the result is assessedValue =
   totalExemptions = homePrice and every other field 0, whatever the tax rate
   and the other exemptions. *)
C5_FullVeteranExemption ==
  TaxDone /\ tax.exemptions.veteranDisability = 100 =>
    tax.result = [assessedValue |-> tax.homePrice,
                  totalExemptions |-> tax.homePrice,
                  taxableValue |-> Zero,
                  annualTax |-> Zero,
                  monthlyTax |-> Zero,
                  effectiveRate |-> Zero]

C5_Witness ==
  /\ TaxDone
  /\ tax.exemptions.veteranDisability = 100
  /\ tax.exemptions.homestead
  /\ tax.exemptions.customExemptionAmount = RInt(2500)
  /\ tax.homePrice = RInt(300000)
  /\ tax.taxRate = RInt(2)
  /\ tax.result.totalExemptions = RInt(300000)
  /\ tax.result.annualTax = Zero

(* C6: for homePrice >= 0, totalExemptions <= assessedValue and taxableValue
   = max(0, assessedValue - totalExemptions), which is never negative. *)
C6_TaxableValueClamped ==
  TaxDone /\ RLe(Zero, tax.homePrice) =>
    /\ RLe(tax.result.totalExemptions, tax.result.assessedValue)
    /\ tax.result.taxableValue =
         RMax(Zero, RSub(tax.result.assessedValue, tax.result.totalExemptions))
    /\ RLe(Zero, tax.result.taxableValue)

C6_Witness ==
  /\ TaxDone
  /\ tax.exemptions.veteranDisability # 100
  /\ RLt(Zero, tax.homePrice)
  /\ RLt(tax.homePrice, tax.total)
  /\ tax.result.totalExemptions = tax.homePrice
  /\ tax.result.taxableValue = Zero

VeteranAmount(rating) ==
  CASE rating = 0 -> 0
    [] rating = 10 -> 5000
    [] rating = 30 -> 7500
    [] rating = 50 -> 10000
    [] rating = 70 -> 12000

(* C7: for a rating in {0,10,30,50,70} and a custom amount >= 0,
   totalExemptions = min(homePrice, S), S the sum of 100000 if homestead,
   10000 if over65 or disabled, the veteran amount, max(homePrice*pct/100,
   5000) if pct > 0, homePrice/2 if agricultural, and the custom amount. *)
C7_ExemptionTotalFormula ==
  /\ TaxDone
  /\ tax.exemptions.veteranDisability \in {0, 10, 30, 50, 70}
  /\ RLe(Zero, tax.exemptions.customExemptionAmount)
  =>
  LET ex == tax.exemptions
      S == RSum(<<IF ex.homestead THEN RInt(100000) ELSE Zero,
                  IF ex.over65 \/ ex.disabled THEN RInt(10000) ELSE Zero,
                  RInt(VeteranAmount(ex.veteranDisability)),
                  IF RLt(Zero, ex.localOptionalPercent)
                  THEN RMax(RDiv(RMul(tax.homePrice, ex.localOptionalPercent), RInt(100)),
                            RInt(5000))
                  ELSE Zero,
                  IF ex.agriculturalExemption THEN RDiv(tax.homePrice, RInt(2)) ELSE Zero,
                  ex.customExemptionAmount>>)
  IN tax.result.totalExemptions = RMin(tax.homePrice, S)

C7_Witness ==
  /\ TaxDone
  /\ tax.homePrice = RInt(300000)
  /\ tax.exemptions = [homestead |-> TRUE, over65 |-> TRUE, disabled |-> FALSE,
                       veteranDisability |-> 30, localOptionalPercent |-> RInt(1),
                       agriculturalExemption |-> TRUE,
                       customExemptionAmount |-> RInt(2500)]
  /\ tax.result.totalExemptions = RInt(275000)
  /\ tax.total = RInt(275000)

TotalWithoutCustom ==
  ExemptionSum(tax.homePrice, [tax.exemptions EXCEPT !.customExemptionAmount = Zero])

(* C8 as stated: for every value of customExemptionAmount the exemption total
   before the clamp is the total of the other exemptions plus that amount. *)
C8_CustomAddedAsIs ==
  TaxDone /\ tax.exemptions.veteranDisability # 100 =>
    tax.total = RAdd(TotalWithoutCustom, tax.exemptions.customExemptionAmount)

(* C8 amended: a customExemptionAmount > 0 is added as it is; an amount <= 0
   adds nothing. *)
C8_CustomAddedWhenPositive ==
  TaxDone /\ tax.exemptions.veteranDisability # 100 =>
    tax.total =
      RAdd(TotalWithoutCustom,
           IF RLt(Zero, tax.exemptions.customExemptionAmount)
           THEN tax.exemptions.customExemptionAmount ELSE Zero)

C8_Witness ==
  /\ TaxDone
  /\ tax.exemptions.veteranDisability # 100
  /\ tax.exemptions.customExemptionAmount = RInt(250000)
  /\ tax.exemptions.homestead
  /\ tax.total = RAdd(TotalWithoutCustom, RInt(250000))
  /\ RLe(RInt(350000), tax.total)

-----------------------------------------------------------------------------
(* Properties of the scenario calculator (SpecScen) *)

ScenDone == scen.pc = "done"

(* totalMonthlyHousing / income * 100, and 0 for an income basis <= 0 *)
HousingShare(income) ==
  IF RLe(income, Zero) THEN Zero
  ELSE RMul(RDiv(scen.result.totalMonthlyHousing, income), RInt(100))

(* C9: affordabilityStatus is 'affordable' iff familyPercentage <= 25,
   'requires-variable' iff familyPercentage > 25 and conservativePercentage
   <= 25, 'not-affordable' otherwise; each percentage is totalMonthlyHousing
   / income * 100 for its basis and 0 when the basis is <= 0. *)
C9_AffordabilityPolicy ==
  ScenDone =>
    LET r == scen.result
        family == RLe(r.familyPercentage, RInt(25))
        conservative == RLe(r.conservativePercentage, RInt(25))
    IN /\ r.fullPercentage = HousingShare(scen.incomeScenarios.fullIncome)
       /\ r.conservativePercentage = HousingShare(scen.incomeScenarios.conservativeIncome)
       /\ r.familyPercentage = HousingShare(scen.incomeScenarios.familyPlanningIncome)
       /\ (r.affordabilityStatus = "affordable") <=> family
       /\ (r.affordabilityStatus = "requires-variable") <=> (~family /\ conservative)
       /\ (r.affordabilityStatus = "not-affordable") <=> (~family /\ ~conservative)

C9_Witness ==
  /\ ScenDone
  /\ RLt(Zero, scen.result.mortgagePayment)
  /\ RLt(RInt(25), scen.result.familyPercentage)
  /\ scen.result.conservativePercentage = RInt(25)
  /\ scen.result.affordabilityStatus = "requires-variable"

-----------------------------------------------------------------------------
(* Properties of the debt-to-income analyzer (SpecDTI) *)

DtiDone == dti.pc = "done"

FiveDebts ==
  RSum(<<dti.otherDebt.carPayments, dti.otherDebt.studentLoans,
         dti.otherDebt.creditCards, dti.otherDebt.otherDebt,
         dti.otherDebt.childSupport>>)

(* C10: for grossMonthlyIncome > 0, frontEndRatio = housing / income * 100,
   backEndRatio = (housing + the five debts) / income * 100, and
   qualificationStatus is 'qualified' iff front <= 28 and back <= 36,
   'marginal' iff not qualified and front <= 31 and back <= 43, and
   'not-qualified' otherwise. *)
C10_QualificationPolicy ==
  DtiDone /\ RLt(Zero, dti.grossMonthlyIncome) =>
    LET r == dti.result
        qualified == RLe(r.frontEndRatio, RInt(28)) /\ RLe(r.backEndRatio, RInt(36))
        marginal ==
          ~qualified /\ RLe(r.frontEndRatio, RInt(31)) /\ RLe(r.backEndRatio, RInt(43))
    IN /\ r.frontEndRatio =
            RMul(RDiv(dti.housingCosts, dti.grossMonthlyIncome), RInt(100))
       /\ r.backEndRatio =
            RMul(RDiv(RAdd(dti.housingCosts, FiveDebts), dti.grossMonthlyIncome),
                 RInt(100))
       /\ (r.qualificationStatus = "qualified") <=> qualified
       /\ (r.qualificationStatus = "marginal") <=> marginal
       /\ (r.qualificationStatus = "not-qualified") <=> (~qualified /\ ~marginal)

C10_Witness ==
  /\ DtiDone
  /\ RLt(Zero, dti.grossMonthlyIncome)
  /\ dti.result.frontEndRatio = RInt(31)
  /\ dti.result.backEndRatio = RInt(43)
  /\ dti.result.qualificationStatus = "marginal"

(* C11: when grossMonthlyIncome <= 0 the result has frontEndRatio =
   backEndRatio = 0 and qualificationStatus 'not-qualified', whatever the
   housing cost and the debts. *)
C11_NoIncomeNotQualified ==
  DtiDone /\ RLe(dti.grossMonthlyIncome, Zero) =>
    /\ dti.result.frontEndRatio = Zero
    /\ dti.result.backEndRatio = Zero
    /\ dti.result.qualificationStatus = "not-qualified"

C11_Witness ==
  /\ DtiDone
  /\ dti.grossMonthlyIncome = Zero
  /\ dti.housingCosts = RInt(500)
  /\ dti.otherDebt.carPayments = RInt(80)
  /\ dti.result.frontEndRatio = Zero
  /\ dti.result.qualificationStatus = "not-qualified"

(* C12: for grossMonthlyIncome > 0, frontEndStatus is 'good' iff
   frontEndRatio <= 28, 'acceptable' iff 28 < frontEndRatio <= 31 and 'high'
   otherwise; backEndStatus is 'good' iff backEndRatio <= 36, 'acceptable'
   iff 36 < backEndRatio <= 43 and 'high' otherwise. *)
C12_StatusBands ==
  DtiDone /\ RLt(Zero, dti.grossMonthlyIncome) =>
    LET r == dti.result
        f == r.frontEndRatio
        b == r.backEndRatio
    IN /\ (r.frontEndStatus = "good") <=> RLe(f, RInt(28))
       /\ (r.frontEndStatus = "acceptable") <=> (RLt(RInt(28), f) /\ RLe(f, RInt(31)))
       /\ (r.frontEndStatus = "high") <=> RLt(RInt(31), f)
       /\ (r.backEndStatus = "good") <=> RLe(b, RInt(36))
       /\ (r.backEndStatus = "acceptable") <=> (RLt(RInt(36), b) /\ RLe(b, RInt(43)))
       /\ (r.backEndStatus = "high") <=> RLt(RInt(43), b)

(* A front-end ratio of exactly 28 is 'good' and a back-end ratio just above
   36 is 'acceptable'. *)
C12_Witness ==
  /\ DtiDone
  /\ RLt(Zero, dti.grossMonthlyIncome)
  /\ dti.result.frontEndRatio = RInt(28)
  /\ dti.result.frontEndStatus = "good"
  /\ dti.result.backEndRatio = <<361, 10>>
  /\ dti.result.backEndStatus = "acceptable"

-----------------------------------------------------------------------------
(* Properties of the stress test runner (SpecStress) *)

StressDone == stress.pc = "done"

(* housing / income * 100, and 0 for an income <= 0 *)
StressFrontEnd(housing) ==
  IF RLe(stress.args.grossMonthlyIncome, Zero) THEN Zero
  ELSE RMul(RDiv(housing, stress.args.grossMonthlyIncome), RInt(100))

(* C13: one result per element of rateIncrements, in the caller's order with
   duplicates kept; result i has rateIncrease = rateIncrements[i], rate =
   baseRate + rateIncrements[i], the housing cost recomputed at that rate,
   and affordabilityStatus 'affordable' if its front-end ratio is <= 28,
   'requires-variable' if it is <= 36, 'not-affordable' otherwise. *)
C13_StressResults ==
  StressDone =>
    LET in == stress.args
        r == stress.result
    IN /\ Len(r) = Len(in.rateIncrements)
       /\ \A i \in 1 .. Len(in.rateIncrements) :
            LET front == StressFrontEnd(r[i].totalMonthlyHousing)
            IN /\ r[i].rateIncrease = in.rateIncrements[i]
               /\ r[i].rate = RAdd(in.baseRate, in.rateIncrements[i])
               /\ r[i].monthlyPayment =
                    calculateMortgagePayment(in.principal, r[i].rate, in.loanTerm)
               /\ r[i].totalMonthlyHousing =
                    RAdd(r[i].monthlyPayment,
                         RAdd(RDiv(RAdd(in.annualPropertyTax, in.annualInsurance), RInt(12)),
                              in.monthlyUtilities))
               /\ r[i].affordabilityStatus =
                    IF RLe(front, RInt(28)) THEN "affordable"
                    ELSE IF RLe(front, RInt(36)) THEN "requires-variable"
                    ELSE "not-affordable"

(* A list with a repeat and out of order, classified at the 28 and 36
   boundaries *)
C13_Witness ==
  /\ StressDone
  /\ stress.args.rateIncrements = <<RInt(1200), Zero, Zero>>
  /\ stress.args.baseRate = Zero
  /\ stress.args.otherDebt.carPayments = RInt(80)
  /\ Len(stress.result) = 3
  /\ stress.result[1].rate = RInt(1200)
  /\ stress.result[1].affordabilityStatus = "not-affordable"
  /\ stress.result[2].dtiResult.frontEndRatio = RInt(28)
  /\ stress.result[2].affordabilityStatus = "affordable"
  /\ stress.result[3] = stress.result[2]

StrictlyIncreasing(incs) ==
  \A i \in 1 .. Len(incs) - 1 : RLt(incs[i], incs[i + 1])

(* C14: for a strictly increasing rateIncrements list the monthlyPayment and
   the totalMonthlyHousing of the results are non-decreasing along the
   result sequence, also when some baseRate + increment is <= 0 or the
   principal is <= 0. *)
C14_StressMonotone ==
  StressDone /\ StrictlyIncreasing(stress.args.rateIncrements) =>
    \A i \in 1 .. Len(stress.result) - 1 :
      /\ RLe(stress.result[i].monthlyPayment, stress.result[i + 1].monthlyPayment)
      /\ RLe(stress.result[i].totalMonthlyHousing,
             stress.result[i + 1].totalMonthlyHousing)

(* Rates -600, 0 and 600: the first two payments are the straight-line
   payment, the third is larger *)
C14_Witness ==
  /\ StressDone
  /\ stress.args.principal = RInt(1200)
  /\ stress.args.baseRate = Zero
  /\ stress.args.rateIncrements = <<RInt(-600), Zero, RInt(600)>>
  /\ stress.result[1].monthlyPayment = RInt(100)
  /\ stress.result[2].monthlyPayment = RInt(100)
  /\ RLt(RInt(100), stress.result[3].monthlyPayment)
  /\ RLt(stress.result[2].totalMonthlyHousing, stress.result[3].totalMonthlyHousing)

-----------------------------------------------------------------------------
(* Properties of the PMI lifecycle calculator (SpecPMI) *)

PmiDone == pmi.pc = "done"

(* row i of the supplied schedule has a balance <= 0.8 * homePrice *)
AtTarget(i) ==
  RLe(amort.schedule.rows[i].balance, RDiv(RMul(RInt(8), pmi.homePrice), RInt(10)))

(* C15: when PMI is required and a schedule is supplied, monthsUntilRemoval
   is the month of the first row, in row order, whose balance is <= 0.8 *
   homePrice, and totalPMICost = monthlyPMI * monthsUntilRemoval; when no
   schedule is supplied, monthsUntilRemoval is null. *)
C15_RemovalMonth ==
  PmiDone =>
    /\ pmi.result.required /\ pmi.withSchedule =>
         \A i \in 1 .. Len(amort.schedule.rows) :
           AtTarget(i) /\ (\A j \in 1 .. i - 1 : ~AtTarget(j)) =>
             /\ pmi.result.monthsUntilRemoval = RInt(amort.schedule.rows[i].month)
             /\ pmi.result.totalPMICost =
                  RMul(pmi.result.monthlyPMI, pmi.result.monthsUntilRemoval)
    /\ ~pmi.withSchedule => pmi.result.monthsUntilRemoval = Null

(* The balance reaches the target at month 8 of 12 and stays below it *)
C15_Witness ==
  /\ PmiDone
  /\ pmi.withSchedule
  /\ pmi.result.required
  /\ pmi.loanAmount = RInt(300000)
  /\ pmi.homePrice = RInt(150000)
  /\ Len(amort.schedule.rows) = 12
  /\ ~AtTarget(7) /\ AtTarget(8) /\ AtTarget(12)
  /\ pmi.result.monthsUntilRemoval = RInt(8)
  /\ pmi.result.totalPMICost = RInt(1000)

(* C16: for homePrice > 0, when loanAmount / homePrice * 100 <= 80 the
   result is required = false, monthlyPMI = annualPMI = totalPMICost = 0 and
   monthsUntilRemoval = null; when it is above 80, required = true, annualPMI
   = loanAmount * rate / 100 and monthlyPMI = annualPMI / 12. *)
C16_RequiredAbove80 ==
  PmiDone /\ RLt(Zero, pmi.homePrice) =>
    LET r == pmi.result
        atMost80 == RLe(RMul(pmi.loanAmount, RInt(100)), RMul(RInt(80), pmi.homePrice))
    IN /\ atMost80 =>
            /\ r.required = FALSE
            /\ r.monthlyPMI = Zero /\ r.annualPMI = Zero /\ r.totalPMICost = Zero
            /\ r.monthsUntilRemoval = Null
       /\ ~atMost80 =>
            /\ r.required = TRUE
            /\ r.annualPMI = RDiv(RMul(pmi.loanAmount, pmi.annualPMIRate), RInt(100))
            /\ r.monthlyPMI = RDiv(r.annualPMI, RInt(12))

(* An LTV of exactly 80, with a schedule supplied *)
C16_Witness ==
  /\ PmiDone
  /\ pmi.withSchedule
  /\ pmi.loanAmount = RInt(120000)
  /\ pmi.homePrice = RInt(150000)
  /\ pmi.result.ltv = RInt(80)
  /\ pmi.result.required = FALSE
  /\ pmi.result.monthsUntilRemoval = Null

-----------------------------------------------------------------------------
(* Properties of the payment formula (SpecPayment) *)

PaymentDone == pay.pc = "done"

(* C17: calculateMortgagePayment returns 0 whenever principal <= 0, whatever
   the rate and the term; otherwise, whenever the annual rate is <= 0, it
   returns principal / (years * 12); (120000, 0, 10) gives exactly 1000. *)
C17_DegeneratePayments ==
  PaymentDone =>
    /\ RLe(pay.principal, Zero) => pay.result = Zero
    /\ RLt(Zero, pay.principal) /\ RLe(pay.annualRate, Zero) =>
         pay.result = RDiv(pay.principal, RMul(pay.years, RInt(12)))
    /\ pay.principal = RInt(120000) /\ pay.annualRate = Zero /\ pay.years = RInt(10) =>
         pay.result = RInt(1000)

C17_Witness ==
  /\ PaymentDone
  /\ pay.principal = RInt(120000)
  /\ pay.annualRate = Zero
  /\ pay.years = RInt(10)
  /\ pay.result = RInt(1000)

-----------------------------------------------------------------------------
(* Properties of the exemptions form (SpecUI) *)

BothSeniorFlags == ui.exemptions.over65 /\ ui.exemptions.disabled

(* C18: in every calculator state reachable from the provider's initial
   state (default, stored, or decoded from a share link) through the
   handlers of the form, over65 and disabled are never both true. *)
C18_SeniorFlagsExclusive == ~BothSeniorFlags

(* What does hold: no handler makes both flags true when they were not, so
   the two flags are exclusive from every initial state where they are. *)
C18_HandlersKeepExclusive == [][~BothSeniorFlags => ~BothSeniorFlags']_vars

-----------------------------------------------------------------------------
(* Properties of the savings goal projector (SpecGoal) *)

GoalDone == goal.pc = "done"

(* homePrice * pct / 100 + closingCosts + monthlyHousingCost * reserveMonths *)
GoalTargetAmount ==
  RSum(<<RDiv(RMul(goal.args.homePrice, goal.args.targetDownPaymentPercent), RInt(100)),
         goal.args.closingCosts,
         RMul(goal.args.monthlyHousingCost, goal.args.reserveMonths)>>)

GoalRemaining == RMax(Zero, RSub(GoalTargetAmount, goal.args.currentSavings))

(* k is the least whole number of monthly savings that covers the remainder *)
IsCeilOfRemaining(k) ==
  /\ IsWhole(k)
  /\ RLe(GoalRemaining, RMul(k, goal.args.monthlySavings))
  /\ RLt(RMul(RSub(k, One), goal.args.monthlySavings), GoalRemaining)

(* C19: monthsToGoal = ceil(remainingNeeded / monthlySavings) when
   remainingNeeded > 0 and monthlySavings > 0, and null otherwise, where
   remainingNeeded = max(0, targetAmount - currentSavings) and targetAmount =
   homePrice * pct / 100 + closingCosts + monthlyHousingCost * reserveMonths. *)
C19_MonthsToGoal ==
  GoalDone =>
    /\ goal.result.targetAmount = GoalTargetAmount
    /\ goal.result.remainingNeeded = GoalRemaining
    /\ IF RLt(Zero, GoalRemaining) /\ RLt(Zero, goal.args.monthlySavings)
       THEN IsCeilOfRemaining(goal.result.monthsToGoal)
       ELSE goal.result.monthsToGoal = Null

(* 60400 remaining at 7 a month: 8628.57... rounds up to 8629 *)
C19_Witness ==
  /\ GoalDone
  /\ goal.result.remainingNeeded = RInt(60400)
  /\ goal.args.monthlySavings = RInt(7)
  /\ goal.result.monthsToGoal = RInt(8629)

MonthIndex(date) == getFullYear(date) * 12 + getMonth(date)

(* C20: whenever remainingNeeded > 0 and monthlySavings > 0, the targetDate
   of the result is today + monthsToGoal months: a date in the month that
   many months after today's, on today's day of the month when that month
   has it. *)
C20_TargetDateIsProjected ==
  /\ GoalDone
  /\ RLt(Zero, goal.result.remainingNeeded)
  /\ RLt(Zero, goal.args.monthlySavings)
  =>
  LET d == goal.result.targetDate
      today == goal.args.now
  IN /\ d # Null
     /\ MonthIndex(d) = MonthIndex(today) + goal.result.monthsToGoal[1]
     /\ (getDate(today) <= DaysInMonth(getFullYear(d), getMonth(d))
           => getDate(d) = getDate(today))

(* The same with no targetDate argument: violated by the month-end carry of
   setMonth alone (31 January + 1 month is 3 March). *)
C20_ProjectedWhenNoTargetDate ==
  goal.pc \in {"call", "done"} /\ goal.args.targetDate = <<>> => C20_TargetDateIsProjected

(* Dates in calendar order *)
DateLt(a, b) ==
  \/ a[1] < b[1]
  \/ a[1] = b[1] /\ a[2] < b[2]
  \/ a[1] = b[1] /\ a[2] = b[2] /\ a[3] < b[3]

GoalMonthsAhead == MonthIndex(goal.args.targetDate[1]) - MonthIndex(goal.args.now)

(* C21 as stated: a supplied targetDate after today gives a non-null
   monthlyRequired = remainingNeeded / months from today to that date. *)
C21_RequiredForFutureDate ==
  /\ GoalDone
  /\ goal.args.targetDate # <<>>
  /\ DateLt(goal.args.now, goal.args.targetDate[1])
  =>
  /\ goal.result.monthlyRequired # Null
  /\ goal.result.monthlyRequired = RDiv(goal.result.remainingNeeded, RInt(GoalMonthsAhead))

(* C21 (amended): monthlyRequired = remainingNeeded / M, with M the number
   of calendar months from today's month to the targetDate's month, exactly
   when a targetDate is supplied, remainingNeeded > 0 and M > 0, whatever
   monthlySavings and monthsToGoal are; it is null in every other case. *)
C21_MonthlyRequired ==
  GoalDone =>
    IF /\ goal.args.targetDate # <<>>
       /\ RLt(Zero, goal.result.remainingNeeded)
       /\ GoalMonthsAhead > 0
    THEN goal.result.monthlyRequired = RDiv(goal.result.remainingNeeded, RInt(GoalMonthsAhead))
    ELSE goal.result.monthlyRequired = Null

(* 300 needed by September 2025 from December 2023, with nothing saved monthly *)
C21_Witness ==
  /\ GoalDone
  /\ goal.args.now = <<2023, 11, 30>>
  /\ goal.args.targetDate = << <<2025, 8, 1>> >>
  /\ goal.result.monthsToGoal = Null
  /\ goal.result.remainingNeeded = RInt(300)
  /\ goal.result.monthlyRequired = <<100, 7>>

GoalAgain == goal.pc = "again"

(* C22 as stated: the second of two calls with identical arguments returns
   what the first returned, in every field. *)
C22_SameArgumentsSameResult ==
  GoalAgain => goal.resultAgain = goal.result

(* C23: two calls of calculateSavingsGoal with identical arguments return
   the same targetAmount, remainingNeeded and progressPercentage, whatever
   the date at each call. *)
C23_AmountsIgnoreClock ==
  GoalAgain =>
    /\ goal.resultAgain.targetAmount = goal.result.targetAmount
    /\ goal.resultAgain.remainingNeeded = goal.result.remainingNeeded
    /\ goal.resultAgain.progressPercentage = goal.result.progressPercentage

(* Two calls on different days whose dates differ and whose amounts agree *)
C23_Witness ==
  /\ GoalAgain
  /\ goal.nowAgain # goal.args.now
  /\ goal.resultAgain.targetDate # goal.result.targetDate
  /\ goal.result.targetAmount = RInt(60800)
  /\ goal.resultAgain.remainingNeeded = RInt(60100)
  /\ goal.resultAgain.progressPercentage = <<175, 152>>

(* C24 as stated, for calculateSavingsGoal: every number of the result is a
   defined finite number, whatever the finite arguments. *)
C24_GoalResultWellDefined ==
  GoalDone =>
    /\ IsFinite(goal.result.targetAmount)
    /\ IsFinite(goal.result.remainingNeeded)
    /\ IsFinite(goal.result.progressPercentage)
    /\ goal.result.monthsToGoal # Null => IsFinite(goal.result.monthsToGoal)
    /\ goal.result.monthlyRequired # Null => IsFinite(goal.result.monthlyRequired)

(* The same for calculateMortgagePayment (SpecPayment): violated by a term of
   0 years, where the payment is principal / 0. *)
C24_PaymentWellDefined ==
  PaymentDone => IsFinite(pay.result)

(* The same for calculatePMI (SpecPMI): violated by a home price of 0, where
   the loan-to-value ratio is loanAmount / 0. *)
C24_PMIWellDefined ==
  PmiDone => IsFinite(pmi.result.ltv) /\ IsFinite(pmi.result.monthlyPMI)

-----------------------------------------------------------------------------
(* Properties of the mortgage rates service (SpecMkt) *)

MktReturned == mkt.pc = "returned"

(* the cache held an unexpired entry when the call began *)
FreshAtEntry ==
  /\ mkt.cacheAtEntry # <<>>
  /\ mkt.clockAtEntry <= mkt.cacheAtEntry[1].expiresAt

(* C25: fetchMortgageRates never rejects; with an unexpired cache entry it
   returns the cached rates without calling the API; when the API call fails
   it returns the stale cached rates with source 'fallback' if an entry
   exists and the static fallback rates only when none exists; and the cache
   changes only by a successful API fetch. *)
C25_FetchNeverRejects ==
  /\ mkt.pc \in {"ready", "observations", "arm", "returned"} => mkt.settled # "rejected"
  /\ MktReturned =>
       /\ mkt.settled = "fulfilled"
       /\ mkt.result # Null
       /\ FreshAtEntry =>
            /\ ~mkt.calledApi
            /\ mkt.result[1] = mkt.cacheAtEntry[1].data
       /\ mkt.apiFailed =>
            IF mkt.cacheAtEntry # <<>>
            THEN /\ mkt.result[1] = [mkt.cacheAtEntry[1].data EXCEPT !.source = "fallback"]
                 /\ mkt.result[1].rate30Year = mkt.cacheAtEntry[1].data.rate30Year
            ELSE mkt.result[1] = [FALLBACK_RATES EXCEPT !.lastUpdated = mkt.result[1].lastUpdated]
  /\ mkt.pc \in {"ready", "observations", "arm", "returned"} /\ mkt.cache # mkt.cacheAtEntry =>
       /\ MktReturned
       /\ mkt.calledApi /\ ~mkt.apiFailed
       /\ mkt.result[1].source = "fred"
       /\ mkt.cache[1].data = mkt.result[1]

(* A failed fetch over an expired entry: the stale rates come back relabelled *)
C25_Witness ==
  /\ MktReturned
  /\ mkt.apiFailed
  /\ mkt.cacheAtEntry # <<>>
  /\ mkt.cacheAtEntry[1].data.source = "fred"
  /\ mkt.result[1].source = "fallback"
  /\ mkt.result[1].rate30Year = <<27, 4>>
  /\ mkt.cache = mkt.cacheAtEntry

-----------------------------------------------------------------------------
(* Further properties of the engine functions *)

(* C26: when familyPlanningIncome <= 0, calculateScenario returns
   familyPercentage = 0 and affordabilityStatus = 'affordable', whatever the
   housing cost. *)
C26_NoFamilyIncomeAffordable ==
  ScenDone /\ RLe(scen.incomeScenarios.familyPlanningIncome, Zero) =>
    /\ scen.result.familyPercentage = Zero
    /\ scen.result.affordabilityStatus = "affordable"

(* All incomes 0 and a housing cost above 12000 a month *)
C26_Witness ==
  /\ ScenDone
  /\ scen.incomeScenarios.fullIncome = Zero
  /\ scen.incomeScenarios.familyPlanningIncome = Zero
  /\ RLt(RInt(12000), scen.result.totalMonthlyHousing)
  /\ scen.result.affordabilityStatus = "affordable"

(* a schedule of generateAmortizationSchedule for the loan amount, at a rate
   >= 0 over at least a year, handed to a calculatePMI that requires PMI *)
PmiOverOwnSchedule ==
  /\ PmiDone
  /\ pmi.withSchedule
  /\ RLt(Zero, pmi.homePrice)
  /\ RLt(RMul(RInt(80), pmi.homePrice), RMul(RInt(100), pmi.loanAmount))
  /\ amort.principal = pmi.loanAmount
  /\ RLe(Zero, amort.annualRate)
  /\ RLe(One, amort.years)

RemovalWithinTerm ==
  LET m == pmi.result.monthsUntilRemoval
  IN /\ m # Null
     /\ RLe(One, m)
     /\ RLe(m, RMul(amort.years, RInt(12)))
     /\ \A i \in 1 .. Len(amort.schedule.rows) :
          RLt(RInt(amort.schedule.rows[i].month), m) => ~AtTarget(i)

(* C27 as stated: for every term of at least a year. *)
C27_RemovalWithinAnyTerm ==
  PmiOverOwnSchedule => RemovalWithinTerm

(* C27 (amended): when PMI is required (homePrice > 0, LTV > 80) and the
   schedule was generated for the same loanAmount with rate >= 0 and a whole
   number of years >= 1, monthsUntilRemoval is non-null, lies in 1..years*12,
   and every row before that month has balance > 0.8 * homePrice. *)
C27_RemovalWithinWholeTerm ==
  PmiOverOwnSchedule /\ IsWhole(amort.years) => RemovalWithinTerm

(* 1200 borrowed on a 1250 home at no interest: the balance is exactly 1000
   after two months *)
C27_Witness ==
  /\ PmiOverOwnSchedule
  /\ pmi.loanAmount = RInt(1200)
  /\ pmi.homePrice = RInt(1250)
  /\ amort.years = One
  /\ amort.schedule.rows[1].balance = RInt(1100)
  /\ amort.schedule.rows[2].balance = RInt(1000)
  /\ pmi.result.monthsUntilRemoval = RInt(2)

(* savings accumulated after the given number of months, from the call's
   currentSavings at its monthlySavings *)
GoalSavedAfter(months) ==
  calculateSavingsAccumulation(goal.args.currentSavings, goal.args.monthlySavings, months)

(* C28: a non-null monthsToGoal = m is >= 1 and is the least whole number of
   months at which calculateSavingsAccumulation(currentSavings,
   monthlySavings, m) reaches targetAmount: m months meet the target and
   m - 1 months fall short. *)
C28_LeastMonthsToTarget ==
  GoalDone /\ goal.result.monthsToGoal # Null =>
    LET m == goal.result.monthsToGoal
    IN /\ IsWhole(m)
       /\ RLe(One, m)
       /\ RLe(goal.result.targetAmount, GoalSavedAfter(m))
       /\ RLt(GoalSavedAfter(RSub(m, One)), goal.result.targetAmount)

(* 600 to find at 300 a month divides exactly: two months, and one is short *)
C28_Witness ==
  /\ GoalDone
  /\ goal.result.targetAmount = RInt(700)
  /\ goal.args.currentSavings = RInt(100)
  /\ goal.args.monthlySavings = RInt(300)
  /\ goal.result.monthsToGoal = RInt(2)
  /\ GoalSavedAfter(RInt(2)) = RInt(700)
  /\ GoalSavedAfter(One) = RInt(400)

(* C29: for grossMonthlyIncome <= 0 the reported totalMonthlyDebt is
   housingCosts alone, without the five other obligations; for income > 0 it
   is housingCosts plus the sum of the five. *)
C29_TotalDebtByBranch ==
  DtiDone =>
    IF RLe(dti.grossMonthlyIncome, Zero)
    THEN dti.result.totalMonthlyDebt = dti.housingCosts
    ELSE dti.result.totalMonthlyDebt = RAdd(dti.housingCosts, FiveDebts)

(* No income, 500 of housing and 80 of car payments: 500 is reported *)
C29_Witness ==
  /\ DtiDone
  /\ dti.grossMonthlyIncome = Zero
  /\ dti.housingCosts = RInt(500)
  /\ RLt(Zero, FiveDebts)
  /\ dti.result.totalMonthlyDebt = RInt(500)

-----------------------------------------------------------------------------
(* Properties of the share links (SpecShare) *)

ShareDecoded == share.pc = "decoded"

(* every number of the state is finite *)
FiniteState(st) ==
  /\ \A k \in {"person1", "person2Base", "person2Variable"} : IsFinite(st.income[k])
  /\ IsFinite(st.expenses)
  /\ \A k \in {"price", "currentRate", "altRate", "loanTerm", "propertyTaxRate",
                "insurance", "utilities"} : IsFinite(st.property[k])
  /\ IsFinite(st.property.exemptions.localOptionalPercent)
  /\ IsFinite(st.property.exemptions.customExemptionAmount)
  /\ IsFinite(st.savings.current)
  /\ IsFinite(st.savings.monthly)

AllowedRatings == {0, 10, 30, 50, 70, 100}

(* C30: decodeStateFromURL(encodeStateToURL(s)) has the income amounts,
   expenses, property fields, seven exemption fields, savings fields and
   purchase dates of s, for every s with finite numbers and an allowed
   veteranDisability; and whatever link is decoded, the decoded
   veteranDisability is one of the six allowed values, 0 standing in for
   any other. *)
C30_ShareRoundTrip ==
  ShareDecoded =>
    /\ share.state # <<>> => share.decoded # Null
    /\ share.decoded # Null =>
         share.decoded[1].property.exemptions.veteranDisability \in AllowedRatings
    /\ /\ share.state # <<>>
       /\ FiniteState(share.state[1])
       /\ share.state[1].property.exemptions.veteranDisability \in AllowedRatings
       =>
       LET s == share.state[1]
           d == share.decoded[1]
       IN /\ d.income.person1 = s.income.person1
          /\ d.income.person2Base = s.income.person2Base
          /\ d.income.person2Variable = s.income.person2Variable
          /\ d.expenses = s.expenses
          /\ d.property = s.property
          /\ d.savings = s.savings
          /\ d.purchaseDates = s.purchaseDates
    /\ /\ share.state # <<>>
       /\ share.state[1].property.exemptions.veteranDisability \notin AllowedRatings
       => share.decoded[1].property.exemptions.veteranDisability = 0

(* A state with a price of 0, the detailed income mode and a 50 percent
   rating comes back with its price and rating *)
C30_Witness ==
  /\ ShareDecoded
  /\ share.state # <<>>
  /\ FiniteState(share.state[1])
  /\ share.state[1].property.price = Zero
  /\ share.state[1].income.variableMode = "detailed"
  /\ share.state[1].property.exemptions.veteranDisability = 50
  /\ share.decoded[1].property.price = Zero
  /\ share.decoded[1].property.currentRate = <<63, 10>>
  /\ share.decoded[1].property.exemptions.veteranDisability = 50
  /\ share.decoded[1].income.variableMode = "simple"

=============================================================================
